---- MODULE Spec2Model ----
(***************************************************************************)
(* Lease Data Foundation: the lease-term validator and regex cascade, the  *)
(* regex / T5 batch drivers over the document store, and the resumable     *)
(* address-matching driver with its progress token and CSV outputs.        *)
(***************************************************************************)
EXTENDS Integers, Sequences, FiniteSets, TLC

(***************************************************************************)
(* Values.  Python values of different types are tagged records so that    *)
(* isinstance and "is None" are comparisons of the tag.                    *)
(***************************************************************************)
NoneVal == [kind |-> "none"]

D(y, m, d) == [kind |-> "date", y |-> y, m |-> m, d |-> d]

\* A number of years, held in quarter-years so that 97 3/4 is exact.
Num(q) == [kind |-> "num", q |-> q]

Years(n) == Num(4 * n)

Str(s) == [kind |-> "str", s |-> s]

\* an exception that left a call
Raised(e) == [kind |-> "raised", e |-> e]

IsRaised(v) == "kind" \in DOMAIN v /\ v.kind = "raised"

IsDate(v) == v.kind = "date"

IsNum(v) == v.kind = "num"

IsNone(v) == v.kind = "none"

\* Python truthiness of the values above: None and 0 are falsy.
Truthy(v) == CASE v.kind = "none" -> FALSE
               [] v.kind = "num" -> v.q # 0
               [] v.kind = "str" -> v.s # ""
               [] OTHER -> TRUE

(***************************************************************************)
(* Calendar arithmetic of datetime, timedelta and dateutil.relativedelta.  *)
(***************************************************************************)
IsLeap(y) == (y % 4 = 0) /\ ((y % 100 # 0) \/ (y % 400 = 0))

DaysInMonth(y, m) ==
    CASE m \in {4, 6, 9, 11} -> 30
      [] m = 2 -> IF IsLeap(y) THEN 29 ELSE 28
      [] OTHER -> 31

RECURSIVE DaysBeforeMonth(_, _)
DaysBeforeMonth(y, m) ==
    IF m = 1 THEN 0 ELSE DaysBeforeMonth(y, m - 1) + DaysInMonth(y, m - 1)

\* datetime.toordinal: the proleptic Gregorian day number.
Ordinal(dt) ==
    LET y1 == dt.y - 1
    IN  y1 * 365 + (y1 \div 4) - (y1 \div 100) + (y1 \div 400)
        + DaysBeforeMonth(dt.y, dt.m) + dt.d

\* datetime comparison.
DateLt(a, b) == Ordinal(a) < Ordinal(b)

DateLe(a, b) == Ordinal(a) <= Ordinal(b)

Min(a, b) == IF a < b THEN a ELSE b

Abs(x) == IF x < 0 THEN -x ELSE x

\* dt + relativedelta(years=years, months=months): the year and month move,
\* then the day is clamped to the length of the resulting month.
AddYearsMonths(dt, years, months) ==
    LET total == (dt.y + years) * 12 + (dt.m - 1) + months
        y2 == total \div 12
        m2 == (total % 12) + 1
    IN  D(y2, m2, Min(dt.d, DaysInMonth(y2, m2)))

AddYears(dt, years) == AddYearsMonths(dt, years, 0)

PrevDay(dt) ==
    IF dt.d > 1 THEN D(dt.y, dt.m, dt.d - 1)
    ELSE IF dt.m > 1 THEN D(dt.y, dt.m - 1, DaysInMonth(dt.y, dt.m - 1))
    ELSE D(dt.y - 1, 12, 31)

\* dt - timedelta(days=k)
RECURSIVE SubDays(_, _)
SubDays(dt, k) == IF k = 0 THEN dt ELSE SubDays(PrevDay(dt), k - 1)

\* relativedelta(dt1, dt2): the whole months from dt2 to dt1, found as
\* dateutil does by starting from the year/month difference and stepping
\* back (or forward) while dt2 + months overshoots dt1.
RECURSIVE StepMonthsDown(_, _, _)
StepMonthsDown(dt1, dt2, months) ==
    IF DateLt(dt1, AddYearsMonths(dt2, 0, months))
    THEN StepMonthsDown(dt1, dt2, months - 1)
    ELSE months

RECURSIVE StepMonthsUp(_, _, _)
StepMonthsUp(dt1, dt2, months) ==
    IF DateLt(AddYearsMonths(dt2, 0, months), dt1)
    THEN StepMonthsUp(dt1, dt2, months + 1)
    ELSE months

RelMonths(dt1, dt2) ==
    LET months == (dt1.y - dt2.y) * 12 + (dt1.m - dt2.m)
    IN  IF DateLt(dt2, dt1) THEN StepMonthsDown(dt1, dt2, months)
        ELSE StepMonthsUp(dt1, dt2, months)

\* relativedelta(dt1, dt2).years and .months (signed, truncated to zero).
RelYearsOf(months) ==
    IF months >= 0 THEN months \div 12 ELSE -((-months) \div 12)

RelMonthsOf(months) ==
    IF months >= 0 THEN months % 12 ELSE -((-months) % 12)

(***************************************************************************)
(* utils/lease_term_validator.py                                           *)
(***************************************************************************)
tolerance_days == 10

\* The dictionary handed to the validator: a function from the keys it
\* holds to tagged values; None (no dictionary at all) is NoneVal.
LeaseData(start, expiry, tenure) ==
    [start_date |-> start, expiry_date |-> expiry, tenure_years |-> tenure]

required_fields == {"start_date", "expiry_date", "tenure_years"}

HasKey(lease_data, field) == field \in DOMAIN lease_data

\* lines 111-117: isinstance checks of the three fields
TypeErrors(lease_data) ==
    IF IsDate(lease_data.start_date) /\ IsDate(lease_data.expiry_date)
       /\ IsNum(lease_data.tenure_years)
    THEN {} ELSE {"INVALID_TYPE"}

\* lines 123-128: start_date >= expiry_date is fatal
DateOrderErrors_NoCheck(start_date, expiry_date) == {}

DateOrderErrors(start_date, expiry_date) ==
    IF ~DateLt(start_date, expiry_date) THEN {"INVALID_DATE_ORDER"} ELSE {}

TenureErrors_None(tenure_years) == {}

\* lines 130-132: tenure_years <= 0 is fatal
TenureErrors(tenure_years) ==
    IF tenure_years.q <= 0 THEN {"INVALID_TENURE"} ELSE {}

DateDiff_Signed(start_date, expiry_date, tenure_years) ==
    Ordinal(AddYears(start_date, tenure_years.q \div 4)) - Ordinal(expiry_date)

\* lines 136-137: abs((start + relativedelta(years=int(tenure)) - expiry).days)
DateDiff(start_date, expiry_date, tenure_years) ==
    Abs(Ordinal(AddYears(start_date, tenure_years.q \div 4)) - Ordinal(expiry_date))

\* lines 134-144: the tenure arithmetic only warns
MismatchWarnings(start_date, expiry_date, tenure_years, tol) ==
    IF tenure_years.q > 0 /\ DateDiff(start_date, expiry_date, tenure_years) > tol
    THEN {"TENURE_MISMATCH"} ELSE {}

min_reasonable_date == D(1800, 1, 1)

max_tenure_years == 1000

\* lines 146-174: the remaining advisory checks
OtherWarnings(start_date, expiry_date, tenure_years, reference_date) ==
    (IF DateLt(reference_date, start_date) THEN {"FUTURE_START_DATE"} ELSE {})
    \cup (IF DateLt(start_date, min_reasonable_date)
          THEN {"UNREASONABLE_START_DATE"} ELSE {})
    \cup (IF tenure_years.q > 4 * max_tenure_years
          THEN {"EXCESSIVE_TENURE"} ELSE {})
    \cup (IF DateLt(expiry_date, reference_date) THEN {"LEASE_EXPIRED"} ELSE {})

ValidationResult(errors, warnings) == [errors |-> errors, warnings |-> warnings]

validate_lease_term(lease_data, reference_date, tol) ==
    IF lease_data = NoneVal THEN ValidationResult({"NULL_DATA"}, {})
    ELSE IF ~(required_fields \subseteq DOMAIN lease_data)
    THEN ValidationResult({"MISSING_FIELD"}, {})
    ELSE IF TypeErrors(lease_data) # {}
    THEN ValidationResult(TypeErrors(lease_data), {})
    ELSE LET start_date == lease_data.start_date
             expiry_date == lease_data.expiry_date
             tenure_years == lease_data.tenure_years
         IN  ValidationResult(
                 DateOrderErrors(start_date, expiry_date)
                     \cup TenureErrors(tenure_years),
                 MismatchWarnings(start_date, expiry_date, tenure_years, tol)
                     \cup OtherWarnings(start_date, expiry_date, tenure_years,
                                        reference_date))

\* LeaseTermValidationResult.is_valid
is_valid(result) == result.errors = {}

is_lease_term_valid(lease_data, reference_date) ==
    is_valid(validate_lease_term(lease_data, reference_date, tolerance_days))

(***************************************************************************)
(* utils/regex_extractors.py.  A term string is held by what the cascade   *)
(* reads from it: the form that decides which pattern matches, and the     *)
(* numbers and (calendar-valid, "D Month YYYY") dates its groups capture.  *)
(*   years_from_to : "N years from D1 to D2"              (pattern 1)      *)
(*   years_from    : "N [P/4] years [less K days] from D1" (pattern 2a,    *)
(*                   which is tried before pattern 2 and takes plain N)    *)
(*   from_to       : "from D1 to D2"                      (pattern 3)      *)
(*   other         : text no pattern matches                               *)
(***************************************************************************)
Term(form, q, less_days, start, expiry) ==
    [kind |-> "str", s |-> "term", form |-> form, q |-> q,
     less_days |-> less_days, start |-> start, expiry |-> expiry]

LeaseTerm(start, expiry, tenure) ==
    [start_date |-> start, expiry_date |-> expiry, tenure_years |-> tenure,
     source |-> Str("regex")]

\* pattern 1 (lines 195-217): stated years and both dates are returned as
\* captured; the match is given up when years is 0.
pattern1(t) ==
    IF t.form = "years_from_to" /\ t.q # 0
    THEN LeaseTerm(t.start, t.expiry, Num(t.q))
    ELSE NoneVal

\* pattern 2a (lines 219-259): expiry = start + whole years + the fraction
\* as months - less_days; the addition at line 253 raises ValueError when
\* the year passes 9999, datetime's last year
pattern2a(t) ==
    IF t.form \in {"years_from", "years_from_to"} /\ t.q # 0
    THEN IF AddYearsMonths(t.start, t.q \div 4, 3 * (t.q % 4)).y > 9999
         THEN Raised("ValueError")
         ELSE LeaseTerm(t.start,
                        SubDays(AddYearsMonths(t.start, t.q \div 4, 3 * (t.q % 4)),
                                t.less_days),
                        Num(t.q))
    ELSE NoneVal

\* pattern 3 (lines 339-360): tenure = relativedelta(expiry, start).years
pattern3(t) ==
    IF t.form \in {"from_to", "years_from_to"}
    THEN LeaseTerm(t.start, t.expiry,
                   Years(RelYearsOf(RelMonths(t.expiry, t.start))))
    ELSE NoneVal

\* parse_lease_term(term_str): the first pattern that yields a result wins.
parse_lease_term(term_str) ==
    IF ~Truthy(term_str) THEN NoneVal
    ELSE IF pattern1(term_str) # NoneVal THEN pattern1(term_str)
    ELSE IF pattern2a(term_str) # NoneVal THEN pattern2a(term_str)
    ELSE IF pattern3(term_str) # NoneVal THEN pattern3(term_str)
    ELSE NoneVal

(***************************************************************************)
(* Bounds of the term language fed to the cascade.                         *)
(***************************************************************************)
MaxTenure == 2

\* the longest tenure the patterns' \d{1,4} can capture
LongestTenure == 9999

StartDates == {D(2000, 2, 29), D(2000, 6, 24), D(2001, 1, 1)}

ExpiryDates == {D(2000, 6, 24), D(2001, 2, 28), D(2002, 6, 24), D(2003, 1, 5)}

LessDays == {0, 3, 10, 11}

Terms ==
    {Term("years_from_to", 4 * n, 0, s, e) :
        n \in 0..MaxTenure, s \in StartDates, e \in ExpiryDates}
    \cup {Term("years_from", 4 * n + f, k, s, NoneVal) :
        n \in 1..MaxTenure, f \in {0, 3}, k \in LessDays, s \in StartDates}
    \cup {Term("from_to", 0, 0, s, e) : s \in StartDates, e \in ExpiryDates}
    \cup {Term("other", 0, 0, NoneVal, NoneVal)}
    \cup {Term("years_from", 4 * LongestTenure, 0, s, NoneVal) : s \in StartDates}

\* datetime.now() at the time of the call
ReferenceDates == {D(2000, 12, 1), D(2030, 1, 1)}

VARIABLES
    v_pc,       \* "parse" -> "validate" -> "done", or "parse" -> "raised"
    v_term,     \* the term string under test
    v_lease,    \* parse_lease_term's return value
    v_result    \* validate_lease_term's return value

vvars == <<v_pc, v_term, v_lease, v_result>>

VInit ==
    /\ v_pc = "parse"
    /\ v_term \in Terms
    /\ v_lease = NoneVal
    /\ v_result = ValidationResult({}, {})

VParse ==
    /\ v_pc = "parse"
    /\ v_lease' = parse_lease_term(v_term)
    /\ v_pc' = IF IsRaised(parse_lease_term(v_term)) THEN "raised" ELSE "validate"
    /\ UNCHANGED <<v_term, v_result>>

VValidate ==
    /\ v_pc = "validate"
    /\ \E reference_date \in ReferenceDates :
          v_result' = validate_lease_term(v_lease, reference_date, tolerance_days)
    /\ v_pc' = "done"
    /\ UNCHANGED <<v_term, v_lease>>

\* the validator's variables while another part of the system is checked
VIdle ==
    /\ v_pc = "done"
    /\ v_term = Term("other", 0, 0, NoneVal, NoneVal)
    /\ v_lease = NoneVal
    /\ v_result = ValidationResult({}, {})

\* A regex LeaseTerm the validator has marked valid.
ValidRegexTerm ==
    /\ v_pc = "done"
    /\ v_lease # NoneVal
    /\ v_lease.source = Str("regex")
    /\ is_valid(v_result)

\* |start_date + tenure_years - expiry_date| in days, the fraction of a
\* year counted in months
ExactDiff(ld) ==
    Abs(Ordinal(AddYearsMonths(ld.start_date, ld.tenure_years.q \div 4,
                               3 * (ld.tenure_years.q % 4)))
        - Ordinal(ld.expiry_date))

\* the same with tenure_years cut to whole years, as the validator adds it
WholeYearDiff(ld) ==
    Abs(Ordinal(AddYearsMonths(ld.start_date, ld.tenure_years.q \div 4, 0))
        - Ordinal(ld.expiry_date))

\* C10 as stated: every regex LeaseTerm the validator marks valid has
\* start_date + tenure_years within 10 days of expiry_date.
C10_AsStated == ValidRegexTerm => ExactDiff(v_lease) <= 10

\* C10 amended: a regex LeaseTerm the validator marks valid has
\* start_date + tenure_years (whole years) within 10 days of expiry_date,
\* or else carries the TENURE_MISMATCH warning, which leaves it valid.
C10_MismatchWarned ==
    ValidRegexTerm =>
        \/ WholeYearDiff(v_lease) <= 10
        \/ "TENURE_MISMATCH" \in v_result.warnings

C10_Witness ==
    /\ ValidRegexTerm
    /\ WholeYearDiff(v_lease) > 10
    /\ "TENURE_MISMATCH" \in v_result.warnings

(***************************************************************************)
(* addressbase/match_addresses.py: the resumable matching driver.          *)
(* Documents are their _id, 1..NumDocs in insertion order; several         *)
(* documents may share a uid (post_process_duplicate_uids exists for       *)
(* them).  A CSV row is the _id of the document it was written for, and 0  *)
(* for a header row.                                                       *)
(***************************************************************************)
NumDocs == 3

MONGO_BATCH_SIZE == 2

MaxRuns == 2

MaxDeletes == 1

DocIds == 1..NumDocs

\* uids are opaque; they are numbered in order of first appearance, which
\* names every way the documents can share them exactly once
Uids == 1..NumDocs

UidAssignments ==
    {f \in [DocIds -> Uids] :
        /\ f[1] = 1
        /\ \A d \in DocIds \ {1} :
              \E j \in 1..(d - 1) : f[d] <= f[j] + 1 /\ \A k \in 1..(d - 1) : f[k] <= f[j]}

NoToken == 0

HeaderRow == 0

VARIABLES
    m_uid,          \* _id -> uid of the document
    m_hits,         \* the documents the reference store has a row for
    m_coll,         \* _ids now in the collection
    m_token,        \* content of matching_progress.txt, NoToken when absent or empty
    found_file,     \* found_addresses.csv: [exists, disk, buf]
    not_found_file, \* not_found.csv: [exists, disk, buf]
    m_pc,           \* "idle", or the driver's position inside main()
    m_pos,          \* _id the cursor has passed (query _id > m_pos)
    m_batch,        \* the batch the for loop holds, in _id order
    found_header_written,
    pg_txn,         \* "none" | "open" | "committed" | "rolled_back"
    m_runs,         \* runs of main() started so far
    m_deletes,      \* DeleteMany operations applied by the enricher
    last_exit,      \* how the latest run ended
    h_prev_exit,    \* how the run before the current one ended
    h_resumed,      \* the current run found a token at startup
    h_located,      \* ... and find_one located a document for it
    h_warned,       \* the "Could not find document" warning was logged
    h_token_doc,    \* _id of the document whose uid save_progress wrote last
    h_start_token_doc, \* h_token_doc as it was when the current run started
    h_token_before, \* token when the batch in hand was fetched
    h_processed,    \* documents process_batch handled in the current run
    h_inflight,     \* the batch in hand when the latest run was cut short
    h_failed        \* the batch whose lookup raised, until a run completes

mvars == <<m_uid, m_hits, m_coll, m_token, found_file, not_found_file, m_pc,
           m_pos, m_batch, found_header_written, pg_txn, m_runs, m_deletes,
           last_exit, h_prev_exit, h_resumed, h_located, h_warned,
           h_token_doc, h_start_token_doc, h_token_before, h_processed,
           h_inflight, h_failed>>

EmptyFile == [exists |-> FALSE, disk |-> <<>>, buf |-> <<>>]

SetMin(S) == CHOOSE x \in S : \A y \in S : x <= y

Last(seq) == seq[Len(seq)]

Range(seq) == {seq[i] : i \in 1..Len(seq)}

\* the elements of S in ascending order
RECURSIVE Ascending(_)
Ascending(S) ==
    IF S = {} THEN <<>> ELSE <<SetMin(S)>> \o Ascending(S \ {SetMin(S)})

Prefix(seq, n) == SubSeq(seq, 1, n)

\* file.flush() / file.close(): the buffered rows reach the disk
Flushed(file) == [file EXCEPT !.disk = file.disk \o file.buf, !.buf = <<>>]

\* the process dies: some leading part of the buffer had already been
\* written out, the rest is gone
Torn(file, n) == [file EXCEPT !.disk = file.disk \o Prefix(file.buf, n), !.buf = <<>>]

Written(file, rows) == [file EXCEPT !.buf = file.buf \o rows]

\* collection.find_one({"uid": uid}): the first document in natural
\* (insertion, here _id) order that carries the uid; 0 when there is none
find_one(uid) ==
    LET same == {d \in m_coll : m_uid[d] = uid}
    IN  IF same = {} THEN 0 ELSE SetMin(same)

\* get_last_processed_uid(): f.read().strip() or None
get_last_processed_uid == m_token

MInit ==
    /\ m_uid \in UidAssignments
    /\ m_hits \in {{}, {d \in DocIds : d % 2 = 1}}
    /\ m_coll = DocIds
    /\ m_token = NoToken
    /\ found_file = EmptyFile
    /\ not_found_file = EmptyFile
    /\ m_pc = "idle"
    /\ m_pos = 0
    /\ m_batch = <<>>
    /\ found_header_written = FALSE
    /\ pg_txn = "none"
    /\ m_runs = 0
    /\ m_deletes = 0
    /\ last_exit = "none"
    /\ h_prev_exit = "none"
    /\ h_resumed = FALSE
    /\ h_located = FALSE
    /\ h_warned = FALSE
    /\ h_token_doc = 0
    /\ h_start_token_doc = 0
    /\ h_token_before = NoToken
    /\ h_processed = {}
    /\ h_inflight = {}
    /\ h_failed = {}

\* main(), lines 709-750: read the token, locate its document, open the
\* CSV files in append mode; fetch_mongo_documents (lines 129-143) locates
\* the document again and queries _id > its _id.
Start ==
    /\ m_pc = "idle"
    /\ m_runs < MaxRuns
    /\ LET last_uid == get_last_processed_uid
           last_doc == IF last_uid = NoToken THEN 0 ELSE find_one(last_uid)
       IN  /\ h_resumed' = (last_uid # NoToken)
           /\ h_located' = (last_doc # 0)
           /\ h_warned' = (last_uid # NoToken /\ last_doc = 0)
           /\ m_pos' = last_doc
    /\ found_header_written' = found_file.exists
    /\ found_file' = [found_file EXCEPT !.exists = TRUE]
    /\ not_found_file' =
          IF not_found_file.exists THEN not_found_file
          ELSE [not_found_file EXCEPT !.exists = TRUE, !.buf = <<HeaderRow>>]
    /\ pg_txn' = "open"
    /\ m_runs' = m_runs + 1
    /\ m_pc' = "fetch"
    /\ m_batch' = <<>>
    /\ h_prev_exit' = last_exit
    /\ h_start_token_doc' = h_token_doc
    /\ h_token_before' = m_token
    /\ h_processed' = {}
    /\ h_failed' = IF last_exit = "complete" THEN {} ELSE h_failed
    /\ h_inflight' = IF last_exit = "complete" THEN {} ELSE h_inflight
    /\ UNCHANGED <<m_uid, m_hits, m_coll, m_token, m_deletes, last_exit,
                   h_token_doc>>

Remaining == {d \in m_coll : d > m_pos}

\* fetch_mongo_documents, lines 145-153: the next batch_size documents
FetchBatch ==
    /\ m_pc = "fetch"
    /\ Remaining # {}
    /\ LET docs == Ascending(Remaining)
       IN  m_batch' = Prefix(docs, Min(MONGO_BATCH_SIZE, Len(docs)))
    /\ h_token_before' = m_token
    /\ m_pc' = "process"
    /\ UNCHANGED <<m_uid, m_hits, m_coll, m_token, found_file, not_found_file,
                   m_pos, found_header_written, pg_txn, m_runs, m_deletes,
                   last_exit, h_prev_exit, h_resumed, h_located, h_warned,
                   h_token_doc, h_start_token_doc, h_processed, h_inflight,
                   h_failed>>

\* the finally block, lines 791-797
CloseAll ==
    /\ found_file' = Flushed(found_file)
    /\ not_found_file' = Flushed(not_found_file)
    /\ m_pc' = "idle"
    /\ m_batch' = <<>>

\* the cursor is exhausted: the for loop ends and main() returns
Finish ==
    /\ m_pc = "fetch"
    /\ Remaining = {}
    /\ CloseAll
    /\ pg_txn' = "none"
    /\ last_exit' = "complete"
    /\ UNCHANGED <<m_uid, m_hits, m_coll, m_token, m_pos, found_header_written,
                   m_runs, m_deletes, h_prev_exit, h_resumed, h_located,
                   h_warned, h_token_doc, h_start_token_doc, h_token_before,
                   h_processed, h_inflight, h_failed>>

SelectSeq2(seq, S) == SelectSeq(seq, LAMBDA d : d \in S)

\* process_batch, lines 618-637: the lookup splits the batch, then the
\* found rows (after the header, if none was written) and the not-found
\* rows go to the writers
FoundRows(batch) ==
    LET hit == SelectSeq2(batch, m_hits)
    IN  IF hit # <<>> /\ ~found_header_written THEN <<HeaderRow>> \o hit ELSE hit

NotFoundRows(batch) == SelectSeq2(batch, DocIds \ m_hits)

ProcessBatch ==
    /\ m_pc = "process"
    /\ found_file' = Written(found_file, FoundRows(m_batch))
    /\ not_found_file' = Written(not_found_file, NotFoundRows(m_batch))
    /\ found_header_written' =
          (found_header_written \/ SelectSeq2(m_batch, m_hits) # <<>>)
    /\ h_processed' = h_processed \cup Range(m_batch)
    /\ m_pc' = "save"
    /\ UNCHANGED <<m_uid, m_hits, m_coll, m_token, m_pos, m_batch, pg_txn,
                   m_runs, m_deletes, last_exit, h_prev_exit, h_resumed,
                   h_located, h_warned, h_token_doc, h_start_token_doc,
                   h_token_before, h_inflight, h_failed>>

\* lines 764-766: save_progress(str(batch[-1].get("uid", "")))
SaveProgress ==
    /\ m_pc = "save"
    /\ m_token' = m_uid[Last(m_batch)]
    /\ h_token_doc' = Last(m_batch)
    /\ m_pc' = "flush"
    /\ UNCHANGED <<m_uid, m_hits, m_coll, found_file, not_found_file, m_pos,
                   m_batch, found_header_written, pg_txn, m_runs, m_deletes,
                   last_exit, h_prev_exit, h_resumed, h_located, h_warned,
                   h_start_token_doc, h_token_before, h_processed, h_inflight,
                   h_failed>>

\* lines 768-773: flush both CSV files, commit the transaction
FlushCommit ==
    /\ m_pc = "flush"
    /\ found_file' = Flushed(found_file)
    /\ not_found_file' = Flushed(not_found_file)
    /\ pg_txn' = "committed"
    /\ m_pos' = Last(m_batch)
    /\ m_pc' = "fetch"
    /\ UNCHANGED <<m_uid, m_hits, m_coll, m_token, m_batch,
                   found_header_written, m_runs, m_deletes, last_exit,
                   h_prev_exit, h_resumed, h_located, h_warned, h_token_doc,
                   h_start_token_doc, h_token_before, h_processed, h_inflight,
                   h_failed>>

InHand == IF m_pc \in {"process", "save", "flush"} THEN Range(m_batch) ELSE {}

\* a reference-store error inside batch_lookup_addresses (before any row of
\* the batch is written): lines 781-784 roll back and re-raise, lines
\* 788-790 re-raise again, the finally block closes the files
BatchError_TokenAdvanced ==
    /\ m_pc = "process"
    /\ CloseAll
    /\ pg_txn' = "rolled_back"
    /\ last_exit' = "error"
    /\ h_inflight' = Range(m_batch)
    /\ h_failed' = Range(m_batch)
    /\ m_token' = m_uid[Last(m_batch)]
    /\ h_token_doc' = Last(m_batch)
    /\ UNCHANGED <<m_uid, m_hits, m_coll, m_pos, found_header_written,
                   m_runs, m_deletes, h_prev_exit, h_resumed, h_located,
                   h_warned, h_start_token_doc, h_token_before,
                   h_processed>>

BatchError ==
    /\ m_pc = "process"
    /\ CloseAll
    /\ pg_txn' = "rolled_back"
    /\ last_exit' = "error"
    /\ h_inflight' = Range(m_batch)
    /\ h_failed' = Range(m_batch)
    /\ UNCHANGED <<m_uid, m_hits, m_coll, m_token, m_pos, found_header_written,
                   m_runs, m_deletes, h_prev_exit, h_resumed, h_located,
                   h_warned, h_token_doc, h_start_token_doc, h_token_before,
                   h_processed>>

\* KeyboardInterrupt anywhere inside the try: line 786 logs it, the finally
\* block closes the files; nothing else is written
Interrupt ==
    /\ m_pc # "idle"
    /\ CloseAll
    /\ last_exit' = "interrupt"
    /\ h_inflight' = InHand
    /\ UNCHANGED <<m_uid, m_hits, m_coll, m_token, m_pos, found_header_written,
                   pg_txn, m_runs, m_deletes, h_prev_exit, h_resumed,
                   h_located, h_warned, h_token_doc, h_start_token_doc,
                   h_token_before, h_processed, h_failed>>

\* the process is killed: no handler runs, buffered rows are lost
Kill ==
    /\ m_pc # "idle"
    /\ \E n \in 0..Len(found_file.buf) : found_file' = Torn(found_file, n)
    /\ \E n \in 0..Len(not_found_file.buf) :
          not_found_file' = Torn(not_found_file, n)
    /\ m_pc' = "idle"
    /\ m_batch' = <<>>
    /\ last_exit' = "kill"
    /\ h_inflight' = InHand
    /\ UNCHANGED <<m_uid, m_hits, m_coll, m_token, m_pos, found_header_written,
                   pg_txn, m_runs, m_deletes, h_prev_exit, h_resumed,
                   h_located, h_warned, h_token_doc, h_start_token_doc,
                   h_token_before, h_processed, h_failed>>

\* enricher/update_mongo_from_csv.py process_chunk: a found row whose class
\* is not residential becomes DeleteMany({"uid": uid})
DeleteByUid ==
    /\ m_pc = "idle"
    /\ m_deletes < MaxDeletes
    /\ \E d \in Range(found_file.disk) \ {HeaderRow} :
          m_coll' = {x \in m_coll : m_uid[x] # m_uid[d]}
    /\ m_deletes' = m_deletes + 1
    /\ UNCHANGED <<m_uid, m_hits, m_token, found_file, not_found_file, m_pc,
                   m_pos, m_batch, found_header_written, pg_txn, m_runs,
                   last_exit, h_prev_exit, h_resumed, h_located, h_warned,
                   h_token_doc, h_start_token_doc, h_token_before,
                   h_processed, h_inflight, h_failed>>

\* ---- claims about the matching driver ----

\* rows a document has in the two CSV files on disk
Occurrences(seq, d) == Cardinality({i \in 1..Len(seq) : seq[i] = d})

RowCount(d) == Occurrences(found_file.disk, d) + Occurrences(not_found_file.disk, d)

\* a run that resumed from the token of an unfinished run has completed
ResumedRunCompleted ==
    /\ m_runs = 2
    /\ m_pc = "idle"
    /\ last_exit = "complete"
    /\ h_prev_exit \in {"interrupt", "kill", "error"}
    /\ h_resumed
    /\ m_deletes = 0

\* C1 as the specification states it: after an interrupted run that left a
\* token and a restart that completed, every document has its output, and
\* has it exactly once unless it was in the batch in flight at the
\* interruption.
C1_AsStated ==
    ResumedRunCompleted =>
        \A d \in DocIds :
            /\ RowCount(d) >= 1
            /\ d \notin h_inflight => RowCount(d) = 1

\* C2 as the specification states it: whenever the token on disk was
\* written by the current run, the output of the document it names is
\* already flushed to the CSV files.
C2_AsStated ==
    (m_pc # "idle" /\ m_token # NoToken /\ h_token_doc \in h_processed)
        => RowCount(h_token_doc) >= 1

\* the cursor of the current run is exhausted
RunExhausted == m_pc = "fetch" /\ Remaining = {}

\* C3 as the specification states it: a run that started with a token whose
\* document was located has, when its cursor is exhausted, processed
\* exactly the documents after the last processed document in _id order.
C3_AsStated ==
    (RunExhausted /\ h_resumed /\ h_located)
        => h_processed = {d \in m_coll : d > h_start_token_doc}

\* C4: a run that ended on a reference-store error has rolled the
\* transaction back and left the token as it was when the failed batch was
\* fetched; a run that completes after such a run has processed every
\* document of the failed batch that is still in the collection.
C4_ErrorRollsBackAndRetries ==
    /\ (m_pc = "idle" /\ last_exit = "error")
          => (pg_txn = "rolled_back" /\ m_token = h_token_before)
    /\ (m_pc = "idle" /\ last_exit = "complete" /\ h_prev_exit = "error")
          => (h_failed \cap m_coll) \subseteq h_processed

C4_Witness ==
    /\ m_pc = "idle"
    /\ last_exit = "complete"
    /\ h_prev_exit = "error"
    /\ h_resumed
    /\ h_failed # {}
    /\ h_failed \subseteq h_processed

\* C27 as the specification states it: whatever runs came before, ended by
\* an interrupt, a kill or a batch error and resumed from the token or not,
\* no document has a second row in the two CSV files on disk.
C27_AsStated ==
    \A d \in DocIds : RowCount(d) <= 1

\* C30 as the specification states it: found_addresses.csv on disk, if it
\* has any row, begins with the header row, and no later row is a header.
C30_AsStated ==
    found_file.disk # <<>> =>
        /\ found_file.disk[1] = HeaderRow
        /\ \A i \in 2..Len(found_file.disk) : found_file.disk[i] # HeaderRow

\* C20 as the specification states it: a run that processed every document
\* and completed cleanly has deleted the progress token, and the run after
\* it finds no token and starts from the first document.
C20_AsStated ==
    /\ (m_pc = "idle" /\ last_exit = "complete") => m_token = NoToken
    /\ (m_pc # "idle" /\ h_prev_exit = "complete") => (~h_resumed /\ h_start_token_doc = 0)

(***************************************************************************)
(* The document store and the two extraction drivers:                      *)
(* main_regex_extractor.py and main_t5_extractor.py.                       *)
(***************************************************************************)
NumLeaseDocs == 3

\* bulk updates are written when this many have accumulated (1000 in the
\* source, line 29)
BATCH_SIZE == 2

\* records per model call (32 in the source, line 43)
T5_BATCH_SIZE == 2

\* updates per bulk write of the T5 driver (500 in the source, line 44)
DB_BATCH_SIZE == 2

MaxPhaseRuns == 2

LeaseDocIds == 1..NumLeaseDocs

\* a field the document does not have
Absent == [kind |-> "absent"]

Bool(b) == [kind |-> "bool", b |-> b]

\* record.get(field)
Get(record, field) == IF record[field] = Absent THEN NoneVal ELSE record[field]

\* a date-of-lease string and the date _parse_dol_date reads from it
DolStr(date) == [kind |-> "str", s |-> "dol", date |-> date]

Document(term, dol) ==
    [term |-> term, dol |-> dol,
     regex_is_valid |-> Absent, regex_parse_error |-> Absent,
     start_date |-> Absent, expiry_date |-> Absent, tenure_years |-> Absent,
     t5_is_valid |-> Absent, t5_parse_error |-> Absent,
     t5_start_date |-> Absent, t5_expiry_date |-> Absent,
     t5_tenure_years |-> Absent]

\* update_one(..., {"$set": update_fields})
SetFields(doc, update_fields) ==
    [k \in DOMAIN doc |->
        IF k \in DOMAIN update_fields THEN update_fields[k] ELSE doc[k]]

UpdateOne(id, update_fields) == [id |-> id, fields |-> update_fields]

\* collection.bulk_write(operations, ordered=False)
RECURSIVE bulk_write(_, _)
bulk_write(docs, operations) ==
    IF operations = <<>> THEN docs
    ELSE LET op == Head(operations)
         IN  bulk_write([docs EXCEPT ![op.id] = SetFields(docs[op.id], op.fields)],
                        Tail(operations))

\* main_regex_extractor.py line 52 calls parse_lease_term(term_str, dol=dol);
\* the function (regex_extractors.py line 167) takes term_str alone, so the
\* call raises TypeError before the cascade runs.
parse_lease_term_dol(term_str, dol) == Raised("TypeError")

RegexInvalid(message) ==
    [regex_is_valid |-> Bool(FALSE), regex_parse_error |-> Str(message)]

\* process_record, lines 33-71
process_record(record, reference_date) ==
    LET term_str == Get(record, "term")
    IN  IF ~Truthy(term_str) THEN RegexInvalid("No term field found")
        ELSE LET lease_data == parse_lease_term_dol(term_str, Get(record, "dol"))
             IN  IF IsRaised(lease_data) THEN lease_data
                 ELSE IF lease_data = NoneVal
                 THEN RegexInvalid("Failed to parse term")
                 ELSE IF is_lease_term_valid(lease_data, reference_date)
                 THEN [regex_is_valid |-> Bool(TRUE),
                       start_date |-> lease_data.start_date,
                       expiry_date |-> lease_data.expiry_date,
                       tenure_years |-> lease_data.tenure_years]
                 ELSE RegexInvalid("Validation failed")

\* the query filter of process_all_records, lines 83-87
RegexFilter(doc) ==
    /\ doc.regex_is_valid # Bool(TRUE)
    /\ doc.t5_is_valid # Bool(TRUE)
    /\ doc.term # Absent
    /\ doc.term # Str("")

T5Filter_AnyRegexFlag(doc) ==
    /\ doc.term # Absent
    /\ doc.term # Str("")
    /\ doc.t5_is_valid = Absent

\* the query filter of process_t5_records, lines 303-307
T5Filter(doc) ==
    /\ doc.regex_is_valid = Bool(FALSE)
    /\ doc.term # Absent
    /\ doc.term # Str("")
    /\ doc.t5_is_valid = Absent

(***************************************************************************)
(* BatchT5Extractor.  The decoded model output is held by what              *)
(* _parse_t5_output reads from it: the DD/MM/YYYY tokens in order (a token *)
(* strptime rejects reads as None), the "N years" of the text that is left *)
(* (None when there is none) and the "<special day> YYYY" date, if any.    *)
(***************************************************************************)
RawOutput(dates, tenure, special) ==
    [dates |-> dates, tenure |-> tenure, special |-> special]

T5Parsed(start, expiry, tenure) ==
    [start_date |-> start, expiry_date |-> expiry, tenure_years |-> tenure]

\* _parse_t5_output, lines 171-232
parse_t5_output(output) ==
    LET dates == output.dates
        start0 == IF Len(dates) >= 1 THEN dates[1] ELSE NoneVal
        expiry0 == IF Len(dates) >= 2 THEN dates[2] ELSE NoneVal
        tenure0 == output.tenure
        start1 == IF dates = <<>> /\ output.special # NoneVal
                  THEN output.special ELSE start0
        expiry1 == IF Truthy(start1) /\ Truthy(tenure0) /\ ~Truthy(expiry0)
                   THEN AddYears(start1, tenure0.q \div 4) ELSE expiry0
        months == RelMonths(expiry1, start1)
        tenure1 == IF Truthy(start1) /\ Truthy(expiry1) /\ ~Truthy(tenure0)
                   THEN Years(RelYearsOf(months)
                              + (IF RelMonthsOf(months) >= 6 THEN 1 ELSE 0))
                   ELSE tenure0
    IN  T5Parsed(start1, expiry1, tenure1)

\* _parse_dol_date, lines 274-285
parse_dol_date(dol) == IF ~Truthy(dol) THEN NoneVal ELSE dol.date

T5Invalid(message) ==
    [t5_is_valid |-> Bool(FALSE), t5_parse_error |-> Str(message)]

\* _parse_and_validate, lines 117-169
parse_and_validate(raw_output, dol, reference_date) ==
    LET parsed0 == parse_t5_output(raw_output)
        use_dol == parsed0.start_date = NoneVal /\ Truthy(dol)
        start == IF use_dol THEN parse_dol_date(dol) ELSE parsed0.start_date
        tenure == parsed0.tenure_years
        expiry == IF use_dol /\ Truthy(start) /\ Truthy(tenure)
                     /\ ~Truthy(parsed0.expiry_date)
                  THEN AddYears(start, tenure.q \div 4)
                  ELSE parsed0.expiry_date
        has_valid_data ==
            \/ start # NoneVal /\ expiry # NoneVal
            \/ start # NoneVal /\ tenure # NoneVal
            \/ expiry # NoneVal /\ tenure # NoneVal
    IN  IF ~has_valid_data THEN T5Invalid("Insufficient data extracted")
        ELSE IF is_lease_term_valid(LeaseData(start, expiry, tenure),
                                    reference_date)
        THEN [t5_is_valid |-> Bool(TRUE), t5_start_date |-> start,
              t5_expiry_date |-> expiry, t5_tenure_years |-> tenure]
        ELSE T5Invalid("Validation failed")

extract_batch_FirstDol(docs, ids, raw_outputs, reference_date) ==
    [i \in 1..Len(ids) |->
        UpdateOne(ids[i],
                  parse_and_validate(raw_outputs[i], Get(docs[ids[1]], "dol"),
                                     reference_date))]

\* extract_batch, lines 69-115, given what the model generated: one update
\* per record, in order
extract_batch(docs, ids, raw_outputs, reference_date) ==
    [i \in 1..Len(ids) |->
        UpdateOne(ids[i],
                  parse_and_validate(raw_outputs[i], Get(docs[ids[i]], "dol"),
                                     reference_date))]

mark_all_failed_Dropped(ids, e) == <<>>

\* lines 377-385 and 415-422: the except branch marks every record of the
\* batch
mark_all_failed(ids, e) ==
    [i \in 1..Len(ids) |-> UpdateOne(ids[i], T5Invalid(e))]

\* the term fields of the collection: no field, null, the empty string,
\* a term the cascade parses to a valid lease, one it parses to an invalid
\* lease, and one no pattern matches
TermFields ==
    {Absent, NoneVal, Str(""),
     Term("years_from", 4, 0, D(2000, 6, 24), NoneVal),
     Term("from_to", 0, 0, D(2001, 1, 1), D(2000, 6, 24)),
     Term("other", 0, 0, NoneVal, NoneVal)}

\* every second document carries a date of lease
DolOf(id) == IF id % 2 = 1 THEN DolStr(D(2000, 2, 29)) ELSE Absent

\* what the model may generate for one record
RawOutputs ==
    {RawOutput(<<>>, NoneVal, NoneVal),
     RawOutput(<<>>, Years(1), NoneVal),
     RawOutput(<<>>, Years(1), D(2000, 12, 25)),
     RawOutput(<<D(2000, 6, 24)>>, Years(2), NoneVal),
     RawOutput(<<D(2000, 6, 24)>>, Years(0), NoneVal),
     RawOutput(<<D(2000, 6, 24), D(2002, 6, 24)>>, Years(2), NoneVal),
     RawOutput(<<D(2000, 6, 24), D(2001, 2, 28)>>, NoneVal, NoneVal),
     RawOutput(<<D(2001, 1, 1), D(2000, 6, 24)>>, Years(1), NoneVal),
     RawOutput(<<NoneVal, D(2002, 6, 24)>>, Years(1), NoneVal)}

\* str(e) of what the model call may raise
ModelErrors == {"CUDA out of memory"}

VARIABLES
    e_docs,          \* the collection: _id -> document
    e_pc,            \* "idle" | "regex" | "t5"
    e_cursor,        \* _ids the cursor has yet to yield
    bulk_operations, \* updates accumulated and not yet written
    batch_ids,       \* _ids of the T5 batch being collected
    e_runs,          \* driver runs started so far
    e_exit,          \* how the last run ended
    e_phase,         \* the driver of the current or last run
    h_selected,      \* _ids the run's query selected
    h_nupd,          \* _id -> updates written to it by the run
    h_accum,         \* updates the run has accumulated
    h_threw          \* <<_id, str(e)>> of the records whose model call raised

evars == <<e_docs, e_pc, e_cursor, bulk_operations, batch_ids, e_runs, e_exit,
           e_phase, h_selected, h_nupd, h_accum, h_threw>>

EInit ==
    /\ e_docs \in {[id \in LeaseDocIds |-> Document(f[id], DolOf(id))] :
                      f \in [LeaseDocIds -> TermFields]}
    /\ e_pc = "idle"
    /\ e_cursor = <<>>
    /\ bulk_operations = <<>>
    /\ batch_ids = <<>>
    /\ e_runs = 0
    /\ e_exit = "none"
    /\ e_phase = "none"
    /\ h_selected = {}
    /\ h_nupd = [id \in LeaseDocIds |-> 0]
    /\ h_accum = {}
    /\ h_threw = {}

RegexSelected == {id \in LeaseDocIds : RegexFilter(e_docs[id])}

T5Selected == {id \in LeaseDocIds : T5Filter(e_docs[id])}

\* a driver starts: count_documents, the early return when nothing matches,
\* then the cursor over the matching documents
StartRun(phase, selected) ==
    /\ e_pc = "idle"
    /\ e_runs < MaxPhaseRuns
    /\ e_runs' = e_runs + 1
    /\ e_phase' = phase
    /\ h_selected' = selected
    /\ e_cursor' = Ascending(selected)
    /\ IF selected = {}
       THEN e_pc' = "idle" /\ e_exit' = "complete"
       ELSE e_pc' = phase /\ e_exit' = "none"
    /\ bulk_operations' = <<>>
    /\ batch_ids' = <<>>
    /\ h_nupd' = [id \in LeaseDocIds |-> 0]
    /\ h_accum' = {}
    /\ h_threw' = {}
    /\ UNCHANGED e_docs

\* process_all_records, lines 74-115
StartRegex == StartRun("regex", RegexSelected)

\* process_t5_records, lines 289-341
StartT5 == StartRun("t5", T5Selected)

\* the documents after a bulk write, and the count of updates per document
Wrote(operations) ==
    /\ e_docs' = bulk_write(e_docs, operations)
    /\ h_nupd' = [id \in LeaseDocIds |->
                    h_nupd[id] + Cardinality({i \in 1..Len(operations) :
                                                 operations[i].id = id})]

\* one pass of the for loop of process_all_records, lines 119-150: an
\* exception of process_record is counted and the record is passed over
RegexRecord ==
    /\ e_pc = "regex"
    /\ e_cursor # <<>>
    /\ \E reference_date \in ReferenceDates :
         LET id == Head(e_cursor)
             update_fields == process_record(e_docs[id], reference_date)
             ops == IF IsRaised(update_fields) THEN bulk_operations
                    ELSE Append(bulk_operations, UpdateOne(id, update_fields))
         IN  /\ h_accum' = h_accum \cup (Range(ops) \ Range(bulk_operations))
             /\ IF ~IsRaised(update_fields) /\ Len(ops) >= BATCH_SIZE
                THEN Wrote(ops) /\ bulk_operations' = <<>>
                ELSE bulk_operations' = ops /\ UNCHANGED <<e_docs, h_nupd>>
    /\ e_cursor' = Tail(e_cursor)
    /\ UNCHANGED <<e_pc, batch_ids, e_runs, e_exit, e_phase, h_selected,
                   h_threw>>

\* lines 152-157: the remaining operations are written, the cursor closed
RegexFinish ==
    /\ e_pc = "regex"
    /\ e_cursor = <<>>
    /\ Wrote(bulk_operations)
    /\ bulk_operations' = <<>>
    /\ e_pc' = "idle"
    /\ e_exit' = "complete"
    /\ UNCHANGED <<e_cursor, batch_ids, e_runs, e_phase, h_selected, h_accum,
                   h_threw>>

\* the model call for a batch: the updates of extract_batch for what the
\* model generated, or those of the except branch when the call raises
ModelCallResults(ids) ==
    {[ops |-> extract_batch(e_docs, ids, raw_outputs, reference_date),
      threw |-> {}] :
        raw_outputs \in [1..Len(ids) -> RawOutputs],
        reference_date \in ReferenceDates}
    \cup {[ops |-> mark_all_failed(ids, e),
           threw |-> {<<ids[i], e>> : i \in 1..Len(ids)}] : e \in ModelErrors}

\* one pass of the for loop of process_t5_records, lines 343-391: the
\* record joins the batch; a full batch goes to the model and the
\* accumulated updates are written once there are DB_BATCH_SIZE of them
T5Record ==
    /\ e_pc = "t5"
    /\ e_cursor # <<>>
    /\ e_cursor' = Tail(e_cursor)
    /\ LET ids == Append(batch_ids, Head(e_cursor))
       IN  IF Len(ids) < T5_BATCH_SIZE
           THEN /\ batch_ids' = ids
                /\ UNCHANGED <<e_docs, bulk_operations, h_nupd, h_accum,
                               h_threw>>
           ELSE /\ batch_ids' = <<>>
                /\ \E r \in ModelCallResults(ids) :
                     LET ops == bulk_operations \o r.ops
                     IN  /\ h_accum' = h_accum \cup Range(r.ops)
                         /\ h_threw' = h_threw \cup r.threw
                         /\ IF Len(ops) >= DB_BATCH_SIZE
                            THEN Wrote(ops) /\ bulk_operations' = <<>>
                            ELSE /\ bulk_operations' = ops
                                 /\ UNCHANGED <<e_docs, h_nupd>>
    /\ UNCHANGED <<e_pc, e_runs, e_exit, e_phase, h_selected>>

\* lines 393-430: the last partial batch goes to the model, the final bulk
\* write is made, the cursor closed
T5Finish ==
    /\ e_pc = "t5"
    /\ e_cursor = <<>>
    /\ \E r \in (IF batch_ids = <<>> THEN {[ops |-> <<>>, threw |-> {}]}
                 ELSE ModelCallResults(batch_ids)) :
          /\ Wrote(bulk_operations \o r.ops)
          /\ h_accum' = h_accum \cup Range(r.ops)
          /\ h_threw' = h_threw \cup r.threw
    /\ bulk_operations' = <<>>
    /\ batch_ids' = <<>>
    /\ e_pc' = "idle"
    /\ e_exit' = "complete"
    /\ UNCHANGED <<e_cursor, e_runs, e_phase, h_selected>>

\* the operations at the positions kept, in their order
RECURSIVE Picked(_, _, _)
Picked(operations, kept, i) ==
    IF i > Len(operations) THEN <<>>
    ELSE (IF i \in kept THEN <<operations[i]>> ELSE <<>>)
             \o Picked(operations, kept, i + 1)

\* the final bulk write of either driver (main_regex_extractor.py lines
\* 153-154, main_t5_extractor.py lines 393-421) raises BulkWriteError: with
\* ordered=False any of the operations but not all have been applied; the
\* call is outside every except branch, so the exception leaves the
\* driver through the finally block that closes the cursor
FinalWriteRaises ==
    /\ e_pc \in {"regex", "t5"}
    /\ e_cursor = <<>>
    /\ \E r \in (IF e_pc = "regex" \/ batch_ids = <<>>
                 THEN {[ops |-> <<>>, threw |-> {}]}
                 ELSE ModelCallResults(batch_ids)) :
          LET ops == bulk_operations \o r.ops
          IN  /\ ops # <<>>
              /\ \E kept \in SUBSET (1..Len(ops)) :
                    /\ kept # 1..Len(ops)
                    /\ Wrote(Picked(ops, kept, 1))
              /\ h_accum' = h_accum \cup Range(r.ops)
              /\ h_threw' = h_threw \cup r.threw
    /\ bulk_operations' = <<>>
    /\ batch_ids' = <<>>
    /\ e_pc' = "idle"
    /\ e_exit' = "error"
    /\ UNCHANGED <<e_cursor, e_runs, e_phase, h_selected>>

\* KeyboardInterrupt inside either driver's loop: it is not an Exception, so
\* no except branch takes it; the finally block closes the cursor and the
\* accumulated updates go with the frame
ExtractInterrupt ==
    /\ e_pc \in {"regex", "t5"}
    /\ e_pc' = "idle"
    /\ e_exit' = "interrupt"
    /\ e_cursor' = <<>>
    /\ bulk_operations' = <<>>
    /\ batch_ids' = <<>>
    /\ UNCHANGED <<e_docs, e_runs, e_phase, h_selected, h_nupd, h_accum,
                   h_threw>>

\* ---- claims about the extraction drivers ----

\* the document holds what the update sets
Applied(op) == \A k \in DOMAIN op.fields : e_docs[op.id][k] = op.fields[k]

RunEnded(phase, exit) == e_pc = "idle" /\ e_phase = phase /\ e_exit = exit

\* C5 as the specification states it: when a driver run has ended on a user
\* interrupt, every update the run had accumulated is in the collection.
C5_AsStated ==
    (e_pc = "idle" /\ e_exit = "interrupt") => \A op \in h_accum : Applied(op)

\* C6 as the specification states it: when a regex run has completed, every
\* document its filter selected was updated exactly once, to
\* regex_is_valid=true with the three lease fields or to
\* regex_is_valid=false with a regex_parse_error.
C6_AsStated ==
    RunEnded("regex", "complete") =>
        \A id \in h_selected :
            /\ h_nupd[id] = 1
            /\ \/ /\ e_docs[id].regex_is_valid = Bool(TRUE)
                  /\ e_docs[id].start_date # Absent
                  /\ e_docs[id].expiry_date # Absent
                  /\ e_docs[id].tenure_years # Absent
               \/ /\ e_docs[id].regex_is_valid = Bool(FALSE)
                  /\ e_docs[id].regex_parse_error # Absent

\* the cascade finds no lease in the term, or the validator rejects the
\* lease it finds
RegexCannotExtract(term_str) ==
    \/ parse_lease_term(term_str) = NoneVal
    \/ \A reference_date \in ReferenceDates :
          ~is_lease_term_valid(parse_lease_term(term_str), reference_date)

\* C7 as the specification states it: when a regex run has completed, every
\* selected document with a non-empty term that the regex phase cannot
\* parse or validate has regex_is_valid=false with a regex_parse_error and,
\* having no t5_is_valid, matches the neural phase's filter.
C7_AsStated ==
    RunEnded("regex", "complete") =>
        \A id \in h_selected :
            (Truthy(Get(e_docs[id], "term"))
             /\ RegexCannotExtract(Get(e_docs[id], "term")))
            => /\ e_docs[id].regex_is_valid = Bool(FALSE)
               /\ e_docs[id].regex_parse_error # Absent
               /\ e_docs[id].t5_is_valid = Absent => T5Filter(e_docs[id])

ThrewIds == {p[1] : p \in h_threw}

\* C8: when a T5 run has completed, every record of a batch whose model
\* call raised holds t5_is_valid=false and the exception's string as
\* t5_parse_error, and every record the run selected, those of the other
\* batches included, has been given its t5_is_valid.
C8_ThrownBatchMarkedFailed ==
    RunEnded("t5", "complete") =>
        /\ \A p \in h_threw :
              /\ e_docs[p[1]].t5_is_valid = Bool(FALSE)
              /\ e_docs[p[1]].t5_parse_error = Str(p[2])
        /\ \A id \in h_selected : e_docs[id].t5_is_valid # Absent

C8_Witness ==
    /\ RunEnded("t5", "complete")
    /\ \E id \in h_selected \ ThrewIds :
          /\ \E t \in ThrewIds : t < id
          /\ e_docs[id].t5_is_valid # Absent
    /\ \A t \in ThrewIds : e_docs[t].t5_parse_error = Str("CUDA out of memory")

OrderedLease(start, expiry, tenure) ==
    /\ IsDate(start)
    /\ IsDate(expiry)
    /\ IsNum(tenure)
    /\ DateLt(start, expiry)
    /\ tenure.q > 0

\* C9: every document marked valid by either phase holds a lease whose
\* start date is strictly before its expiry date and whose tenure is
\* greater than 0.
C9_ValidLeaseOrdered ==
    \A id \in LeaseDocIds :
        /\ e_docs[id].regex_is_valid = Bool(TRUE)
              => OrderedLease(e_docs[id].start_date, e_docs[id].expiry_date,
                              e_docs[id].tenure_years)
        /\ e_docs[id].t5_is_valid = Bool(TRUE)
              => OrderedLease(e_docs[id].t5_start_date,
                              e_docs[id].t5_expiry_date,
                              e_docs[id].t5_tenure_years)

C9_Witness ==
    \E id \in LeaseDocIds :
        /\ e_docs[id].t5_is_valid = Bool(TRUE)
        /\ e_docs[id].t5_tenure_years = Years(2)

\* C23 as the specification states it: a bulk-write failure never stops a
\* run: no run of either driver ends on the error of a bulk write.
C23_AsStated ==
    (e_pc = "idle" /\ e_runs > 0) => e_exit \in {"complete", "interrupt"}

T5Fields == {"t5_is_valid", "t5_parse_error", "t5_start_date",
             "t5_expiry_date", "t5_tenure_years"}

\* the t5 fields of the document are those of the update and no others
OnlyApplied(op) ==
    /\ Applied(op)
    /\ \A k \in T5Fields \ DOMAIN op.fields : e_docs[op.id][k] = Absent

ExtractionStates ==
    {<<Absent, Absent>>, <<Bool(TRUE), Absent>>, <<Bool(FALSE), Absent>>,
     <<Bool(FALSE), Bool(TRUE)>>, <<Bool(FALSE), Bool(FALSE)>>}

MarkedTermFields == {NoneVal, Term("years_from", 4, 0, D(2000, 6, 24), NoneVal)}

EMarkedInit ==
    /\ e_pc = "idle"
    /\ e_cursor = <<>>
    /\ bulk_operations = <<>>
    /\ batch_ids = <<>>
    /\ e_runs = 0
    /\ e_exit = "none"
    /\ e_phase = "none"
    /\ h_selected = {}
    /\ h_nupd = [id \in LeaseDocIds |-> 0]
    /\ h_accum = {}
    /\ h_threw = {}
    /\ e_docs \in {[id \in LeaseDocIds |->
                      [Document(f[id], DolOf(id))
                          EXCEPT !.regex_is_valid = s[id][1],
                                 !.t5_is_valid = s[id][2]]] :
                      f \in [LeaseDocIds -> MarkedTermFields],
                      s \in [LeaseDocIds -> ExtractionStates]}

\* C28: after any sequence of regex-phase and neural-phase runs no document
\* has both regex_is_valid = true and t5_is_valid = true.
C28_NeverBothValid ==
    \A id \in LeaseDocIds :
        ~(e_docs[id].regex_is_valid = Bool(TRUE)
            /\ e_docs[id].t5_is_valid = Bool(TRUE))

\* a neural run has completed on a collection with a document the regex
\* phase marked valid, and has marked another document valid
C28_Witness ==
    /\ e_pc = "idle"
    /\ e_phase = "t5"
    /\ e_exit = "complete"
    /\ \E id \in LeaseDocIds : e_docs[id].regex_is_valid = Bool(TRUE)
    /\ \E id \in LeaseDocIds :
          h_nupd[id] > 0 /\ e_docs[id].t5_is_valid = Bool(TRUE)

\* ---- _parse_and_validate on any decoded output ----

\* the DD/MM/YYYY tokens of an output: none, one or two, each a date or a
\* token strptime rejects
DateTokens ==
    LET token == {NoneVal, D(2000, 6, 24), D(2002, 6, 24)}
    IN  {<<>>} \cup {<<a>> : a \in token} \cup {<<a, b>> : a, b \in token}

NeuralOutputs ==
    {RawOutput(dates, tenure, special) :
        dates \in DateTokens,
        tenure \in {NoneVal, Years(0), Years(2)},
        special \in {NoneVal, D(2000, 12, 25)}}

VARIABLES
    n_raw,      \* the decoded output of the model
    n_dol,      \* the record's dol
    n_pc,       \* "call" | "done"
    n_parsed,   \* what _parse_t5_output returned
    n_update    \* what _parse_and_validate returned

nvars == <<n_raw, n_dol, n_pc, n_parsed, n_update>>

NInit ==
    /\ n_pc = "call"
    /\ n_parsed = NoneVal
    /\ n_update = NoneVal
    /\ n_dol \in {Absent, DolStr(D(2000, 2, 29))}
    /\ n_raw \in NeuralOutputs

\* one call of _parse_and_validate, lines 117-169
ParseAndValidate ==
    /\ n_pc = "call"
    /\ n_pc' = "done"
    /\ n_parsed' = parse_t5_output(n_raw)
    /\ \E reference_date \in ReferenceDates :
          n_update' = parse_and_validate(n_raw, Get([dol |-> n_dol], "dol"),
                                         reference_date)
    /\ UNCHANGED <<n_raw, n_dol>>

\* the call's variables while another part is checked
NIdle ==
    /\ n_pc = "call"
    /\ n_parsed = NoneVal
    /\ n_update = NoneVal
    /\ n_dol = Absent
    /\ n_raw = RawOutput(<<>>, NoneVal, NoneVal)

\* the legs the output itself gives: the first and the second date token
\* (or the special day when there is no token) and the tenure
Yielded(output) ==
    T5Parsed(IF output.dates # <<>> THEN output.dates[1] ELSE output.special,
             IF Len(output.dates) >= 2 THEN output.dates[2] ELSE NoneVal,
             output.tenure)

LegsPresent(legs) ==
    Cardinality({k \in {"start_date", "expiry_date", "tenure_years"} :
                    legs[k] # NoneVal})

\* C26 as the specification states it: whenever the output yields exactly
\* two of start date, expiry date and tenure, _parse_t5_output returns all
\* three.
C26_AsStated ==
    (n_pc = "done" /\ LegsPresent(Yielded(n_raw)) = 2)
        => LegsPresent(n_parsed) = 3

\* C18: for every input string the pattern engine returns a LeaseTerm or
\* None and never raises.
C18_AsStated == v_pc # "parse" => ~IsRaised(v_lease)

(***************************************************************************)
(* The validator on any dictionary a caller can hand it: None, missing     *)
(* keys, values of the wrong type, dates in either order, tenures of       *)
(* either sign.                                                            *)
(***************************************************************************)
FieldValues(dates) == {NoneVal, Str("x")} \cup dates

LeaseInputs ==
    {NoneVal}
    \cup {[start_date |-> s, expiry_date |-> e] :
             s \in StartDates, e \in ExpiryDates}
    \cup {[expiry_date |-> e, tenure_years |-> Years(1)] : e \in ExpiryDates}
    \cup {[tenure_years |-> Years(1)], [start_date |-> D(2000, 6, 24)]}
    \cup {LeaseData(s, e, t) :
             s \in FieldValues({D(1799, 12, 31), D(2000, 6, 24), D(2031, 1, 1)}),
             e \in FieldValues({D(2000, 6, 24), D(2002, 6, 24), D(3001, 6, 24)}),
             t \in {NoneVal, Str("x"), Years(-1), Years(0), Num(3), Years(2),
                    Years(max_tenure_years + 1)}}

VAnyInit ==
    /\ v_pc = "validate"
    /\ v_term = Term("other", 0, 0, NoneVal, NoneVal)
    /\ v_lease \in LeaseInputs
    /\ v_result = ValidationResult({}, {})

\* the fatal conditions: no dictionary, a field missing or None or of the
\* wrong type, start_date not before expiry_date, tenure_years not positive
Fatal(lease_data) ==
    IF lease_data = NoneVal THEN TRUE
    ELSE IF \E f \in {"start_date", "expiry_date", "tenure_years"} :
                f \notin DOMAIN lease_data
    THEN TRUE
    ELSE IF lease_data.start_date.kind # "date"
            \/ lease_data.expiry_date.kind # "date"
            \/ lease_data.tenure_years.kind # "num"
    THEN TRUE
    ELSE \/ Ordinal(lease_data.start_date) >= Ordinal(lease_data.expiry_date)
         \/ lease_data.tenure_years.q <= 0

Text(chars) == [kind |-> "text", chars |-> chars]

Digits == {"1", "2", "3"}

\* str.upper() / SQL UPPER on the characters in use
UpperChar(c) == CASE c = "a" -> "A" [] c = "h" -> "H" [] OTHER -> c

UPPER(t) == Text([i \in 1..Len(t.chars) |-> UpperChar(t.chars[i])])

\* Python truthiness of a string or None
NonEmpty(t) == t # NoneVal /\ t.chars # <<>>

\* str(u).isdigit()
isdigit(t) == t.chars # <<>> /\ \A i \in 1..Len(t.chars) : t.chars[i] \in Digits

DigitValue(c) == CASE c = "1" -> 1 [] c = "2" -> 2 [] OTHER -> 3

\* int(u) of a digit string
RECURSIVE ToInt(_)
ToInt(chars) ==
    IF chars = <<>> THEN 0
    ELSE 10 * ToInt(SubSeq(chars, 1, Len(chars) - 1)) + DigitValue(Last(chars))

\* index of the first "-" in the string, 0 when there is none
FirstDash(chars) ==
    IF \E i \in 1..Len(chars) : chars[i] = "-"
    THEN SetMin({i \in 1..Len(chars) : chars[i] = "-"}) ELSE 0

\* normalise_house_number, lines 654-668: "153-157" -> "153"
normalise_house_number(house_number) ==
    IF FirstDash(house_number.chars) # 0
    THEN Text(SubSeq(house_number.chars, 1, FirstDash(house_number.chars) - 1))
    ELSE house_number

\* length of the leading run of digits
LeadingDigits(chars) ==
    IF \E i \in 1..Len(chars) : chars[i] \notin Digits
    THEN SetMin({i \in 1..Len(chars) : chars[i] \notin Digits}) - 1
    ELSE Len(chars)

\* extract_base_number, lines 671-695: "85A" -> "85"; no leading digits
\* leaves the (range-stripped) string as it is
extract_base_number(house_number) ==
    LET h == normalise_house_number(house_number)
    IN  IF LeadingDigits(h.chars) > 0
        THEN Text(SubSeq(h.chars, 1, LeadingDigits(h.chars)))
        ELSE h

\* SQL: UPPER(a) = UPPER(b); NULL equals nothing
SqlEq(a, b) == a # NoneVal /\ b # NoneVal /\ UPPER(a) = UPPER(b)

\* SQL: UPPER(a) LIKE UPPER(b) || '%'
SqlLikePrefix(a, b) ==
    /\ a # NoneVal
    /\ b # NoneVal
    /\ Len(b.chars) <= Len(a.chars)
    /\ SubSeq(UPPER(a).chars, 1, Len(b.chars)) = UPPER(b).chars

\* a row of ab_plus
RefRow(uprn, building_number, building_name, thoroughfare, postcode, post_town) ==
    [uprn |-> uprn, building_number |-> building_number,
     building_name |-> building_name, thoroughfare |-> thoroughfare,
     postcode |-> postcode, post_town |-> post_town]

\* the CASE of the ranked_matches query, lines 362-370 and 484-492; 0 when
\* no branch holds
match_priority(ab, house_number, base_number) ==
    IF SqlEq(ab.building_number, house_number) THEN 1
    ELSE IF SqlEq(ab.building_name, house_number) THEN 2
    ELSE IF SqlEq(ab.building_number, base_number)
            \/ SqlLikePrefix(ab.building_number, base_number) THEN 3
    ELSE IF SqlEq(ab.building_name, base_number)
            \/ SqlLikePrefix(ab.building_name, base_number) THEN 4
    ELSE 0

EmptyText == Text(<<>>)

\* what parse_address_string returns for an address: the labelled parts
\* (absent labels read as ""), or an exception
Parsed(house_number, house, road, postcode, city) ==
    [kind |-> "parsed", house_number |-> house_number, house |-> house,
     road |-> road, postcode |-> postcode, city |-> city]

\* the apd field of a document: the stripped string is empty or not, and
\* an address string, as the sequence of its parts between commas, with
\* what the parser makes of the normalised and of the original string
Address(id, empty, normalised, original) ==
    [id |-> id, empty |-> empty, normalised |-> normalised,
     original |-> original]

MatchDoc(uid, apd, pc, uprn) == [uid |-> uid, apd |-> apd, pc |-> pc, uprn |-> uprn]

\* normalise_address, lines 639-652, on an address given as the sequence of
\* its parts between commas: with more than one comma the first part is
\* dropped
normalise_address(address) ==
    IF Len(address) - 1 > 1 THEN Tail(address) ELSE address

\* the dict process_batch puts in parse_errors, lines 572-574, 590-592, 613-615
ParseError(i, doc) ==
    [kind |-> "parse_error", doc |-> i, uid |-> doc.uid, apd_original |-> doc.apd.id,
     apd |-> normalise_address(doc.apd.id), pc |-> doc.pc, uprn |-> doc.uprn]

\* the dict process_batch puts in records, lines 602-611
LookupRecord(i, doc, pc, city, house_number, road) ==
    [kind |-> "record", doc |-> i, uid |-> doc.uid, apd_original |-> doc.apd.id,
     apd |-> normalise_address(doc.apd.id), pc |-> pc, city |-> city, house_number |-> house_number, road |-> road,
     uprn |-> doc.uprn]

\* process_batch, lines 565-615, for the document at position i
prepare(i, doc) ==
    IF doc.apd.empty THEN ParseError(i, doc)
    ELSE IF IsRaised(doc.apd.normalised) THEN ParseError(i, doc)
    ELSE LET first == doc.apd.normalised
             use_house == ~NonEmpty(first.house_number)
                          /\ NonEmpty(first.house) /\ NonEmpty(doc.pc)
             reparse == ~NonEmpty(first.house_number) /\ ~use_house
         IN  IF reparse /\ IsRaised(doc.apd.original) THEN ParseError(i, doc)
             ELSE LET parsed == IF reparse THEN doc.apd.original ELSE first
                      house_number ==
                          IF NonEmpty(first.house_number) THEN first.house_number
                          ELSE IF use_house THEN first.house
                          ELSE IF NonEmpty(parsed.house_number)
                          THEN parsed.house_number ELSE parsed.house
                      final_postcode ==
                          IF NonEmpty(parsed.postcode) THEN parsed.postcode
                          ELSE doc.pc
                      use_city_match == ~NonEmpty(final_postcode)
                                        /\ NonEmpty(parsed.city)
                  IN  IF ~NonEmpty(house_number) \/ ~NonEmpty(parsed.road)
                      THEN ParseError(i, doc)
                      ELSE LookupRecord(i, doc, final_postcode,
                                        IF use_city_match THEN parsed.city
                                        ELSE NoneVal,
                                        normalise_house_number(house_number),
                                        parsed.road)

\* a matched record: the values uid, original_apd and uprn that the tier
\* sets on its copy of the reference row (lines 283-288, 401-411, 523-533);
\* row, doc, tier and lookup keep where the entry came from
FoundRecord(row, rec, tier) ==
    [row |-> row, uid |-> rec.uid, original_apd |-> rec.apd,
     uprn |-> rec.uprn, doc |-> rec.doc, tier |-> tier, lookup |-> rec]

\* int(uprn) if uprn and str(uprn).isdigit() else None (0 stands for None:
\* both are falsy at line 281)
uprn_key(rec) == IF isdigit(rec.uprn) THEN ToInt(rec.uprn.chars) ELSE 0

SetMax(S) == CHOOSE x \in S : \A y \in S : y <= x

\* found_by_uprn, lines 269-272: of several rows with one uprn the dict
\* keeps the one fetched last; ab_plus is held in fetch order
UprnRows(ab_plus, key) == {i \in 1..Len(ab_plus) : ab_plus[i].uprn = key}

uprn_hit(ab_plus, rec) ==
    IF uprn_key(rec) # 0 /\ UprnRows(ab_plus, uprn_key(rec)) # {}
    THEN ab_plus[SetMax(UprnRows(ab_plus, uprn_key(rec)))]
    ELSE NoneVal

\* the value the record is joined on: its postcode, or its city against
\* post_town
PlaceOf(rec, by) == IF by = "postcode" THEN rec.pc ELSE rec.city

RowPlace(ab, by) == IF by = "postcode" THEN ab.postcode ELSE ab.post_town

RowPriority(ab, rec) ==
    match_priority(ab, rec.house_number, extract_base_number(rec.house_number))

\* the JOIN of the ranked_matches query, lines 371-382 and 493-504
Joined(ab_plus, rec, by) ==
    {i \in 1..Len(ab_plus) :
        /\ SqlEq(ab_plus[i].thoroughfare, rec.road)
        /\ SqlEq(RowPlace(ab_plus[i], by), PlaceOf(rec, by))
        /\ RowPriority(ab_plus[i], rec) # 0}

Ranked_AnyRow(ab_plus, rec, by) == Joined(ab_plus, rec, by)

\* SELECT DISTINCT ON (lookup key) ... ORDER BY lookup key, match_priority,
\* lines 384-388 and 506-510: the rows of least priority for the key
Ranked(ab_plus, rec, by) ==
    {i \in Joined(ab_plus, rec, by) :
        \A j \in Joined(ab_plus, rec, by) :
            RowPriority(ab_plus[i], rec) <= RowPriority(ab_plus[j], rec)}

\* the row DISTINCT ON keeps for the key: the first of them in fetch order
ranked_hit(ab_plus, rec, by) ==
    IF Ranked(ab_plus, rec, by) = {} THEN NoneVal
    ELSE ab_plus[SetMin(Ranked(ab_plus, rec, by))]

\* [r for r in records if keep(r)] for the three splits of
\* batch_lookup_addresses
HasUprn(r) == NonEmpty(r.uprn)

ByPostcode(r) == NonEmpty(r.pc)

ByCity(r) == ~NonEmpty(r.pc) /\ NonEmpty(r.city)

NoMatch(r) == ~NonEmpty(r.pc) /\ ~NonEmpty(r.city)

\* one tier over its records: found entries and the records it missed
TierFound(ab_plus, records, tier) ==
    LET hit(r) == IF tier = "uprn" THEN uprn_hit(ab_plus, r)
                  ELSE ranked_hit(ab_plus, r, tier)
        hits == SelectSeq(records, LAMBDA r : hit(r) # NoneVal)
    IN  [i \in 1..Len(hits) |-> FoundRecord(hit(hits[i]), hits[i], tier)]

TierNotFound(ab_plus, records, tier) ==
    LET hit(r) == IF tier = "uprn" THEN uprn_hit(ab_plus, r)
                  ELSE ranked_hit(ab_plus, r, tier)
    IN  SelectSeq(records, LAMBDA r : hit(r) = NoneVal)

batch_lookup_addresses_NoSplit(ab_plus, records) ==
    LET uprn_records == SelectSeq(records, HasUprn)
        postcode_records == SelectSeq(records, ByPostcode)
        city_records == SelectSeq(records, ByCity)
    IN  [found |-> TierFound(ab_plus, uprn_records, "uprn")
                   \o TierFound(ab_plus, postcode_records, "postcode")
                   \o TierFound(ab_plus, city_records, "city"),
         not_found |-> SelectSeq(records, NoMatch)
                       \o TierNotFound(ab_plus, postcode_records, "postcode")
                       \o TierNotFound(ab_plus, city_records, "city")]

\* batch_lookup_addresses, lines 156-211
batch_lookup_addresses(ab_plus, records) ==
    LET uprn_records == SelectSeq(records, HasUprn)
        non_uprn_records == SelectSeq(records, LAMBDA r : ~HasUprn(r))
        remaining_records ==
            TierNotFound(ab_plus, uprn_records, "uprn") \o non_uprn_records
        postcode_records == SelectSeq(remaining_records, ByPostcode)
        city_records == SelectSeq(remaining_records, ByCity)
        no_match_records == SelectSeq(remaining_records, NoMatch)
    IN  [found |-> TierFound(ab_plus, uprn_records, "uprn")
                   \o TierFound(ab_plus, postcode_records, "postcode")
                   \o TierFound(ab_plus, city_records, "city"),
         not_found |-> no_match_records
                       \o TierNotFound(ab_plus, postcode_records, "postcode")
                       \o TierNotFound(ab_plus, city_records, "city")]

\* the rows found_writer and not_found_writer put in the CSV files, lines
\* 624-635: the found row is the result dict of the tier, which is the
\* reference row with the keys uid, original_apd and uprn assigned (lines
\* 286-288, 409-411, 531-533), the uprn column of the reference row
\* included; the not-found row is uid, apd_original, apd, pc, uprn
FoundRow(f) ==
    [c \in DOMAIN f.row \cup {"uid", "original_apd", "uprn"} |->
        CASE c = "uid" -> f.uid
          [] c = "original_apd" -> f.original_apd
          [] c = "uprn" -> f.uprn
          [] OTHER -> f.row[c]]

NotFoundRow(r) ==
    [uid |-> r.uid, apd_original |-> r.apd_original, apd |-> r.apd,
     pc |-> r.pc, uprn |-> r.uprn]

\* process_batch, lines 541-637, on the documents docs at positions
\* first+1 .. first+Len(docs) of the collection
process_batch(ab_plus, docs, first) ==
    LET prepared == [i \in 1..Len(docs) |-> prepare(first + i, docs[i])]
        records == SelectSeq(prepared, LAMBDA r : r.kind = "record")
        parse_errors == SelectSeq(prepared, LAMBDA r : r.kind = "parse_error")
        looked == batch_lookup_addresses(ab_plus, records)
    IN  [found |-> looked.found,
         not_found |-> looked.not_found \o parse_errors]

\* post_process_duplicate_uids, lines 851-965.  has_header: the first line
\* of found_addresses.csv is the header row; without it the file is empty
\* (line 884) or its first line is a data row holding no "uid" cell (line
\* 891), and the function returns.
uid_to_found_data(found, uid) ==
    found[SetMin({i \in 1..Len(found) : found[i].uid = uid})]

FoundUids(found) == {found[i].uid : i \in 1..Len(found)}

records_to_move(found, not_found) ==
    LET dup == SelectSeq(not_found, LAMBDA r : r.uid \in FoundUids(found))
    IN  [i \in 1..Len(dup) |->
            [uid_to_found_data(found, dup[i].uid)
                EXCEPT !.original_apd = dup[i].apd_original]]

remaining_not_found(found, not_found) ==
    SelectSeq(not_found, LAMBDA r : r.uid \notin FoundUids(found))

post_process_duplicate_uids(has_header, found, not_found) ==
    IF ~has_header THEN [found |-> found, not_found |-> not_found]
    ELSE IF records_to_move(found, not_found) = <<>>
    THEN [found |-> found, not_found |-> not_found]
    ELSE [found |-> found \o records_to_move(found, not_found),
          not_found |-> remaining_not_found(found, not_found)]

(***************************************************************************)
(* Bounds and inputs of the lookup: a collection of NumLookupDocs          *)
(* documents, a reference table of up to two rows in either fetch order.    *)
(***************************************************************************)
NumLookupDocs == 3
MaxLookupRuns == 2

\* the parser's reading of "1a h, a" / "1 h, h"; one address the parser
\* raises on, one with no road, one that is empty after strip()
PostcodeAddress ==
    Address(<<"flat 2", "1a h", "a">>, FALSE,
            Parsed(Text(<<"1", "a">>), EmptyText, Text(<<"h">>),
                   Text(<<"a">>), EmptyText),
            NoneVal)

CityAddress ==
    Address(<<"1 h", "h">>, FALSE,
            Parsed(Text(<<"1">>), EmptyText, Text(<<"h">>), EmptyText,
                   Text(<<"h">>)),
            NoneVal)

EmptyAddress == Address(<<"">>, TRUE, NoneVal, NoneVal)

RaisingAddress == Address(<<"?">>, FALSE, Raised("Exception"), NoneVal)

\* no house_number and no house: the original string is parsed again and
\* gives a house number but no road
NoRoadAddress ==
    Address(<<"2-3">>, FALSE,
            Parsed(EmptyText, EmptyText, Text(<<"h">>), EmptyText, EmptyText),
            Parsed(Text(<<"2", "-", "3">>), EmptyText, EmptyText, EmptyText,
                   EmptyText))

LookupDocs ==
    { MatchDoc(Text(<<"1">>), EmptyAddress, EmptyText, EmptyText),
      MatchDoc(Text(<<"1">>), PostcodeAddress, EmptyText, Text(<<"3">>)),
      MatchDoc(Text(<<"2">>), CityAddress, EmptyText, EmptyText),
      MatchDoc(Text(<<"2">>), RaisingAddress, Text(<<"a">>), Text(<<"h">>)),
      MatchDoc(Text(<<"2">>), NoRoadAddress, Text(<<"a">>), EmptyText) }

\* "1a" equals the first row's building_number (priority 1) and starts with
\* the second row's building_name (4); "1" equals the second row's
\* building_name (2) and starts the first row's building_number (3)
RefRows ==
    { RefRow(3, Text(<<"1", "A">>), NoneVal, Text(<<"H">>), Text(<<"A">>),
             Text(<<"H">>)),
      RefRow(1, NoneVal, Text(<<"1">>), Text(<<"h">>), Text(<<"a">>),
             Text(<<"h">>)) }

\* ab_plus in fetch order: every ordering of every subset of RefRows
RefTables ==
    UNION {{t \in [1..n -> RefRows] : \A i, j \in 1..n : t[i] = t[j] => i = j}
           : n \in 0..Cardinality(RefRows)}

VARIABLES
    ab_plus,              \* the reference table, in fetch order
    l_coll,               \* the collection's documents in _id order
    l_size,               \* how many of them have been inserted so far
    l_pos,                \* documents processed so far (the resume point)
    l_pc,                 \* "idle" | "running"
    l_runs,
    found_csv_exists,     \* found_addresses.csv exists
    found_csv_header,     \* its first line is the header row
    found_csv,            \* its data rows
    not_found_csv,        \* the data rows of not_found.csv
    l_header_written,     \* main's found_header_written
    h_batch,              \* positions of the batch processed last
    h_found,              \* what process_batch found for it
    h_not_found,          \* what process_batch did not find
    h_post                \* post_process_duplicate_uids has run since the last batch

lvars == <<ab_plus, l_coll, l_size, l_pos, l_pc, l_runs, found_csv_exists,
           found_csv_header, found_csv, not_found_csv, l_header_written,
           h_batch, h_found, h_not_found, h_post>>

LInit ==
    /\ ab_plus \in RefTables
    /\ l_coll \in [1..NumLookupDocs -> LookupDocs]
    /\ l_size = 1
    /\ l_pos = 0
    /\ l_pc = "idle"
    /\ l_runs = 0
    /\ found_csv_exists = FALSE
    /\ found_csv_header = FALSE
    /\ found_csv = <<>>
    /\ not_found_csv = <<>>
    /\ l_header_written = FALSE
    /\ h_batch = {}
    /\ h_found = <<>>
    /\ h_not_found = <<>>
    /\ h_post = FALSE

\* a document is inserted into the collection between two runs
LInsert ==
    /\ l_pc = "idle"
    /\ l_size < NumLookupDocs
    /\ l_size' = l_size + 1
    /\ UNCHANGED <<ab_plus, l_coll, l_pos, l_pc, l_runs, found_csv_exists,
                   found_csv_header, found_csv, not_found_csv,
                   l_header_written, h_batch, h_found, h_not_found, h_post>>

\* main, lines 745-750, and create_csv_writers, lines 92-110
LStart ==
    /\ l_pc = "idle"
    /\ l_runs < MaxLookupRuns
    /\ l_pc' = "running"
    /\ l_header_written' = found_csv_exists
    /\ found_csv_exists' = TRUE
    /\ h_post' = FALSE
    /\ UNCHANGED <<ab_plus, l_coll, l_size, l_pos, l_runs, found_csv_header,
                   found_csv, not_found_csv, h_batch, h_found, h_not_found>>

\* one pass of main's loop, lines 757-780: the next batch through
\* process_batch
LProcessBatch ==
    /\ l_pc = "running"
    /\ l_pos < l_size
    /\ \E n \in {IF l_size - l_pos < MONGO_BATCH_SIZE THEN l_size - l_pos
                 ELSE MONGO_BATCH_SIZE} :
       \E out \in {process_batch(ab_plus, SubSeq(l_coll, l_pos + 1, l_pos + n),
                                 l_pos)} :
           /\ found_csv_header' =
                  (found_csv_header \/ (out.found # <<>> /\ ~l_header_written))
           /\ l_header_written' = (l_header_written \/ out.found # <<>>)
           /\ found_csv' =
                  found_csv \o [i \in 1..Len(out.found) |-> FoundRow(out.found[i])]
           /\ not_found_csv' =
                  not_found_csv
                  \o [i \in 1..Len(out.not_found) |-> NotFoundRow(out.not_found[i])]
           /\ l_pos' = l_pos + n
           /\ h_batch' = (l_pos + 1)..(l_pos + n)
           /\ h_found' = out.found
           /\ h_not_found' = out.not_found
    /\ UNCHANGED <<ab_plus, l_coll, l_size, l_pc, l_runs, found_csv_exists,
                   h_post>>

\* main returns (the cursor is exhausted, or KeyboardInterrupt at line 786)
\* and post_process_duplicate_uids runs, lines 977-979
LPostProcess ==
    /\ l_pc = "running"
    /\ \E out \in {post_process_duplicate_uids(found_csv_header, found_csv,
                                                not_found_csv)} :
           /\ found_csv' = out.found
           /\ not_found_csv' = out.not_found
    /\ l_pc' = "idle"
    /\ l_runs' = l_runs + 1
    /\ h_post' = TRUE
    /\ UNCHANGED <<ab_plus, l_coll, l_size, l_pos, found_csv_exists,
                   found_csv_header, l_header_written, h_batch, h_found,
                   h_not_found>>

\* entries of a sequence of found or not-found entries that come from the
\* document at position p
EntriesOf(entries, p) == {i \in 1..Len(entries) : entries[i].doc = p}

\* C11: every document of a batch is emitted exactly once, as found or as
\* not found and never both or neither; a document a tier found is not
\* looked up, nor emitted, by a later tier; a document whose address is
\* empty, makes the parser raise, or has no house number or road is emitted
\* as not found.
C11_EachDocumentEmittedOnce ==
    /\ \A p \in h_batch :
          Cardinality(EntriesOf(h_found, p))
              + Cardinality(EntriesOf(h_not_found, p)) = 1
    /\ \A i \in 1..Len(h_found) : h_found[i].doc \in h_batch
    /\ \A i \in 1..Len(h_not_found) : h_not_found[i].doc \in h_batch
    /\ \A i \in 1..Len(h_found) :
          LET f == h_found[i]
          IN  /\ f.tier # "uprn" => uprn_hit(ab_plus, f.lookup) = NoneVal
              /\ f.tier = "city" => ~NonEmpty(f.lookup.pc)
    /\ \A i \in 1..Len(h_not_found) :
          h_not_found[i].kind = "record"
              => uprn_hit(ab_plus, h_not_found[i]) = NoneVal
    /\ \A p \in h_batch :
          LET doc == l_coll[p]
          IN  (doc.apd.empty \/ IsRaised(doc.apd.normalised)
                  \/ prepare(p, doc).kind = "parse_error")
              => \E i \in 1..Len(h_not_found) :
                    h_not_found[i] = ParseError(p, doc)

\* a batch of two: one document found by its uprn although its postcode
\* joins a row too, the other a parse failure
C11_Witness ==
    /\ Cardinality(h_batch) = 2
    /\ \E i \in 1..Len(h_found) :
          /\ h_found[i].tier = "uprn"
          /\ ranked_hit(ab_plus, h_found[i].lookup, "postcode") # NoneVal
    /\ \E i \in 1..Len(h_not_found) : h_not_found[i].kind = "parse_error"

\* C12: when several reference rows join a record in the postcode or the
\* town lookup, the row returned has the lowest match priority of them.
C12_LowestPriorityReturned ==
    \A i \in 1..Len(h_found) :
        LET f == h_found[i]
        IN  f.tier \in {"postcode", "city"}
            => \A j \in 1..Len(ab_plus) :
                  (/\ SqlEq(ab_plus[j].thoroughfare, f.lookup.road)
                   /\ SqlEq(RowPlace(ab_plus[j], f.tier), PlaceOf(f.lookup, f.tier))
                   /\ RowPriority(ab_plus[j], f.lookup) # 0)
                  => RowPriority(f.row, f.lookup) <= RowPriority(ab_plus[j], f.lookup)

\* a row of worse priority is fetched before the row returned
C12_Witness ==
    \E i \in 1..Len(h_found) :
        /\ h_found[i].tier \in {"postcode", "city"}
        /\ Cardinality(Joined(ab_plus, h_found[i].lookup, h_found[i].tier)) = 2
        /\ h_found[i].row = ab_plus[2]
        /\ RowPriority(ab_plus[1], h_found[i].lookup)
              > RowPriority(ab_plus[2], h_found[i].lookup)

\* C21 as the specification states it: every matched row of a batch, in
\* whichever tier it was matched, carries the uid of its document, the
\* document's address string as it was given, the document's uprn and the
\* priority that was selected for the match.
C21_AsStated ==
    \A i \in 1..Len(h_found) :
        LET row == FoundRow(h_found[i])
            doc == l_coll[h_found[i].doc]
        IN  /\ row.uid = doc.uid
            /\ row.original_apd = doc.apd.id
            /\ row.uprn = doc.uprn
            /\ "match_priority" \in DOMAIN row

\* C29 as the specification states it: the found row has every column of
\* the matched reference row with the value the reference row has, its
\* uprn included.
C29_AsStated ==
    \A i \in 1..Len(h_found) :
        LET row == FoundRow(h_found[i])
            matched == h_found[i].row
        IN  /\ \A c \in DOMAIN matched \ {"uprn"} : row[c] = matched[c]
            /\ isdigit(row.uprn)
            /\ ToInt(row.uprn.chars) = matched.uprn

\* the rows a reader of found_addresses.csv takes as data: the first line
\* is read as the header (line 883), whether it is one or not
DataRows(has_header, rows) ==
    IF has_header \/ rows = <<>> THEN rows ELSE Tail(rows)

\* C13: after the duplicate-uid post-processing no uid appears both in the
\* found and in the not-found output.
C13_AsStated ==
    (l_pc = "idle" /\ h_post)
        => FoundUids(DataRows(found_csv_header, found_csv))
               \cap FoundUids(not_found_csv) = {}

\* the lookup's variables while another part is checked
LIdle ==
    /\ ab_plus = <<>>
    /\ l_coll = [i \in 1..NumLookupDocs |->
                    MatchDoc(Text(<<"1">>), EmptyAddress, EmptyText, EmptyText)]
    /\ LInit

(***************************************************************************)
(* addressbase/post_process_denormalizer.py: rows added to ab_plus for     *)
(* building-number ranges and for "ST." thoroughfares.                     *)
(***************************************************************************)
MaxDenormRuns == 2

\* a row of ab_plus for the denormalizer; synthetic records that the
\* denormalizer inserted the row
AbRow(uprn, building_name, building_number, thoroughfare, synthetic) ==
    [uprn |-> uprn, building_name |-> building_name,
     building_number |-> building_number, thoroughfare |-> thoroughfare,
     synthetic |-> synthetic]

\* BUILDING_NAME ~ '^[0-9]+-[0-9]+$'
IsRange(t) ==
    /\ t # NoneVal
    /\ FirstDash(t.chars) # 0
    /\ isdigit(Text(SubSeq(t.chars, 1, FirstDash(t.chars) - 1)))
    /\ isdigit(Text(SubSeq(t.chars, FirstDash(t.chars) + 1, Len(t.chars))))

\* generate_series(SPLIT_PART(name, '-', 1)::INTEGER,
\*                 SPLIT_PART(name, '-', 2)::INTEGER)
generate_series(t) ==
    ToInt(SubSeq(t.chars, 1, FirstDash(t.chars) - 1))
        .. ToInt(SubSeq(t.chars, FirstDash(t.chars) + 1, Len(t.chars)))

\* expanded_num::TEXT
RECURSIVE IntText(_)
IntText(n) ==
    IF n < 10 THEN <<<<"0", "1", "2", "3", "4", "5", "6", "7", "8", "9">>[n + 1]>>
    ELSE IntText(n \div 10) \o IntText(n % 10)

\* THOROUGHFARE LIKE '%ST.%'
HasStDot(t) ==
    /\ t # NoneVal
    /\ \E i \in 1..(Len(t.chars) - 2) :
          SubSeq(t.chars, i, i + 2) = <<"S", "T", ".">>

\* REPLACE(THOROUGHFARE, 'ST.', 'ST')
RECURSIVE ReplaceStDot(_)
ReplaceStDot(chars) ==
    IF Len(chars) < 3 THEN chars
    ELSE IF SubSeq(chars, 1, 3) = <<"S", "T", ".">>
    THEN <<"S", "T">> \o ReplaceStDot(SubSeq(chars, 4, Len(chars)))
    ELSE <<Head(chars)>> \o ReplaceStDot(Tail(chars))

synthetic_uprn_start_MinusOne(table) == -1

\* SELECT COALESCE(MIN(UPRN), 0) FROM ab_plus WHERE UPRN < 0, and lines
\* 45-46, 147
synthetic_uprn_start(table) ==
    LET negative == {r.uprn : r \in {x \in table : x.uprn < 0}}
        min_synthetic == IF negative = {} THEN 0 ELSE SetMin(negative)
    IN  IF min_synthetic < 0 THEN min_synthetic - 1 ELSE -1

\* every order in which a SELECT without ORDER BY can number its rows
RECURSIVE Orders(_)
Orders(S) ==
    IF S = {} THEN {<<>>}
    ELSE UNION {{<<x>> \o o : o \in Orders(S \ {x})} : x \in S}

\* the rows the range INSERT selects, lines 69-111: one per row with a
\* range and number of the range
RangeRows(table) ==
    UNION {{[src |-> r, num |-> n] : n \in generate_series(r.building_name)}
           : r \in {x \in table : IsRange(x.building_name)}}

\* the row inserted for the k-th selected row: UPRN is
\* start - ROW_NUMBER() + 1, BUILDING_NAME NULL, BUILDING_NUMBER the number
RangeRow(start, k, e) ==
    AbRow(start - k + 1, NoneVal, Text(IntText(e.num)), e.src.thoroughfare, TRUE)

\* the rows the ST. INSERT selects, lines 163-204
StRows(table) == {r \in table : HasStDot(r.thoroughfare) /\ r.uprn > 0}

StRow(start, k, r) ==
    AbRow(start - k + 1, r.building_name, r.building_number,
          Text(ReplaceStDot(r.thoroughfare.chars)), TRUE)

\* the table as loaded: Ordnance Survey rows, whose UPRNs are positive
OriginalRows ==
    { AbRow(1, Text(<<"1", "-", "2">>), NoneVal,
            Text(<<"S", "T", ".", " ", "A">>), FALSE),
      AbRow(2, Text(<<"h">>), Text(<<"3">>), Text(<<"h">>), FALSE),
      AbRow(3, Text(<<"2", "-", "1">>), NoneVal, Text(<<"S", "T", " ", "A">>),
            FALSE) }

VARIABLES
    d_table,      \* ab_plus: a set of rows
    d_runs,
    h_d_before    \* ab_plus before the expansion that ran last

dvars == <<d_table, d_runs, h_d_before>>

DInit ==
    /\ d_table \in SUBSET OriginalRows
    /\ d_runs = 0
    /\ h_d_before = d_table

\* expand_building_number_ranges, lines 28-124
ExpandRanges ==
    /\ d_runs < MaxDenormRuns
    /\ d_runs' = d_runs + 1
    /\ h_d_before' = d_table
    /\ IF {x \in d_table : IsRange(x.building_name)} = {}
       THEN d_table' = d_table
       ELSE \E o \in Orders(RangeRows(d_table)) :
               d_table' = d_table
                   \cup {RangeRow(synthetic_uprn_start(d_table), k, o[k])
                         : k \in 1..Len(o)}

\* expand_thoroughfare_st_variants, lines 127-217
ExpandSt ==
    /\ d_runs < MaxDenormRuns
    /\ d_runs' = d_runs + 1
    /\ h_d_before' = d_table
    /\ IF StRows(d_table) = {}
       THEN d_table' = d_table
       ELSE \E o \in Orders(StRows(d_table)) :
               d_table' = d_table
                   \cup {StRow(synthetic_uprn_start(d_table), k, o[k])
                         : k \in 1..Len(o)}

\* the denormalizer's variables while another part is checked
DIdle ==
    /\ d_table = {}
    /\ d_runs = 0
    /\ h_d_before = {}

\* C14: every row the denormalizer inserts has a strictly negative UPRN, the
\* UPRNs of one run descend from one below the least negative UPRN already
\* in the table (from -1 when there is none), so that a row has a positive
\* UPRN exactly when it is an original row and a negative one exactly when
\* it is synthetic.
C14_SyntheticUprnsNegative ==
    LET inserted == d_table \ h_d_before
        negative == {r.uprn : r \in {x \in h_d_before : x.uprn < 0}}
        first == IF negative = {} THEN -1 ELSE SetMin(negative) - 1
    IN  /\ \A r \in inserted : r.uprn < 0 /\ r.synthetic
        /\ {r.uprn : r \in inserted}
               = (first - Cardinality(inserted) + 1)..first
        /\ \A r \in d_table : (r.uprn > 0 <=> ~r.synthetic)
                              /\ (r.uprn < 0 <=> r.synthetic)

\* a run inserted rows into a table that already held synthetic rows
C14_Witness ==
    /\ \E r \in h_d_before : r.uprn < 0
    /\ Cardinality(d_table \ h_d_before) >= 2

(***************************************************************************)
(* enricher/update_mongo_from_csv.py: one chunk of found_addresses.csv     *)
(* turned into bulk operations and written with ordered=False.             *)
(***************************************************************************)
NumEnrichDocs == 2
CHUNK_SIZE == 2
MaxChunks == 2

RESIDENTIAL_CLASSES == {"R", "X", "P"}

\* the whitespace of \s and of str.strip(): the blank, the tab, the no-break space
Whitespace == {" ", "\t", "nbsp"}

\* str.strip()
RECURSIVE strip(_)
strip(chars) ==
    IF chars = <<>> THEN chars
    ELSE IF Head(chars) \in Whitespace THEN strip(Tail(chars))
    ELSE IF Last(chars) \in Whitespace THEN strip(SubSeq(chars, 1, Len(chars) - 1))
    ELSE chars

is_residential_AnyClass(class_value) == class_value # NoneVal

\* is_residential, lines 59-64; NaN is NoneVal
is_residential(class_value) ==
    IF class_value = NoneVal THEN FALSE
    ELSE /\ strip(class_value.chars) # <<>>
         /\ Head(strip(class_value.chars)) \in RESIDENTIAL_CLASSES

\* a row of the CSV chunk: the columns uid, class and uprn
CsvRow(uid, class, uprn) == [uid |-> uid, class |-> class, uprn |-> uprn]

\* update_doc, lines 112-119: the mapped columns that are not NaN
update_doc(row) ==
    [class |-> IF row.class = NoneVal THEN Absent ELSE row.class,
     ab_uprn |-> IF row.uprn = NoneVal THEN Absent ELSE row.uprn]

UpdateMany(uid, set) == [op |-> "UpdateMany", uid |-> uid, set |-> set]

DeleteMany(uid) == [op |-> "DeleteMany", uid |-> uid, set |-> NoneVal]

\* process_chunk, lines 104-150: the operations of the chunk, in row order
RECURSIVE operations(_)
operations(chunk) ==
    IF chunk = <<>> THEN <<>>
    ELSE LET row == Head(chunk)
         IN  (IF ~NonEmpty(row.uid) THEN <<>>
              ELSE IF is_residential(row.class)
              THEN IF update_doc(row) # [class |-> Absent, ab_uprn |-> Absent]
                   THEN <<UpdateMany(row.uid, update_doc(row))>> ELSE <<>>
              ELSE <<DeleteMany(row.uid)>>)
             \o operations(Tail(chunk))

Deleted == [kind |-> "deleted"]

EnrichDoc(uid, class, ab_uprn) == [uid |-> uid, class |-> class, ab_uprn |-> ab_uprn]

\* the store applying one operation: every document with the uid is
\* deleted, or gets the fields of $set
ApplyOp(docs, op) ==
    [id \in DOMAIN docs |->
        IF docs[id] = Deleted \/ docs[id].uid # op.uid THEN docs[id]
        ELSE IF op.op = "DeleteMany" THEN Deleted
        ELSE EnrichDoc(docs[id].uid,
                       IF op.set.class = Absent THEN docs[id].class
                       ELSE op.set.class,
                       IF op.set.ab_uprn = Absent THEN docs[id].ab_uprn
                       ELSE op.set.ab_uprn)]

\* bulk_write(ops, ordered=False) when the store applies the operations in
\* the order given
RECURSIVE ApplyInOrder(_, _, _)
ApplyInOrder(docs, ops, order) ==
    IF order = <<>> THEN docs
    ELSE ApplyInOrder(ApplyOp(docs, ops[Head(order)]), ops, Tail(order))

\* rows of found_addresses.csv: class codes carry trailing blanks; a uid or
\* a cell can be missing (NaN)
CsvRows ==
    { CsvRow(Text(<<"1">>), Text(<<"R", " ">>), Text(<<"1">>)),
      CsvRow(Text(<<"1">>), Text(<<"P">>), Text(<<"2">>)),
      CsvRow(Text(<<"1">>), Text(<<"C", " ">>), Text(<<"1">>)),
      CsvRow(Text(<<"2">>), Text(<<"X">>), NoneVal),
      CsvRow(Text(<<"2">>), NoneVal, Text(<<"1">>)),
      CsvRow(NoneVal, Text(<<"R", " ">>), Text(<<"1">>)),
      CsvRow(EmptyText, Text(<<"C", " ">>), Text(<<"2">>)) }

Chunks == UNION {[1..n -> CsvRows] : n \in 1..CHUNK_SIZE}

VARIABLES
    u_docs,        \* the collection: _id -> document or Deleted
    u_chunks,      \* chunks processed
    h_chunk,       \* the chunk processed last
    h_ops,         \* its operations
    h_u_before     \* the collection before its bulk write

uvars == <<u_docs, u_chunks, h_chunk, h_ops, h_u_before>>

UInit ==
    /\ u_docs \in {[id \in 1..NumEnrichDocs |-> EnrichDoc(uids[id], Absent, Absent)]
                   : uids \in {f \in [1..NumEnrichDocs -> {Text(<<"1">>), Text(<<"2">>)}]
                               : f[1] = Text(<<"1">>)}}
    /\ u_chunks = 0
    /\ h_chunk = <<>>
    /\ h_ops = <<>>
    /\ h_u_before = u_docs

\* process_chunk, lines 86-159, for the next chunk of the CSV
EnrichChunk ==
    /\ u_chunks < MaxChunks
    /\ \E chunk \in Chunks :
       \E ops \in {operations(chunk)} :
       \E order \in Orders(1..Len(ops)) :
           /\ u_docs' = ApplyInOrder(u_docs, ops, order)
           /\ h_chunk' = chunk
           /\ h_ops' = ops
    /\ h_u_before' = u_docs
    /\ u_chunks' = u_chunks + 1

\* the enricher's variables while another part is checked
UIdle ==
    /\ u_docs = [id \in 1..NumEnrichDocs |-> EnrichDoc(Text(<<"1">>), Absent, Absent)]
    /\ UInit

C16_AsStated ==
    \A o1, o2 \in Orders(1..Len(h_ops)) :
        ApplyInOrder(h_u_before, h_ops, o1) = ApplyInOrder(h_u_before, h_ops, o2)

(***************************************************************************)
(* utils/regex_extractors.py: normalise_term_str on strings of characters. *)
(* A string is a sequence of one-character strings; "\t" is the tab,       *)
(* "nbsp" the no-break space, "acute" and "diaeresis" the two accents.     *)
(***************************************************************************)
MaxTermLen == 4
MaxNormalisations == 2

LowerLetters == <<"a", "b", "c", "d", "e", "f", "g", "h", "i", "j", "k", "l", "m", "n", "o", "p", "q", "r", "s", "t", "u", "v", "w", "x", "y", "z">>
UpperLetters == <<"A", "B", "C", "D", "E", "F", "G", "H", "I", "J", "K", "L", "M", "N", "O", "P", "Q", "R", "S", "T", "U", "V", "W", "X", "Y", "Z">>

\* re.IGNORECASE compares the characters without their case
lower(c) ==
    IF \E k \in 1..26 : UpperLetters[k] = c
    THEN LowerLetters[CHOOSE k \in 1..26 : UpperLetters[k] = c]
    ELSE c

DigitChars == {"0", "1", "2", "3", "4", "5", "6", "7", "8", "9"}

\* \w: a letter, a digit or the underscore
isword(c) == lower(c) \in {LowerLetters[k] : k \in 1..26} \cup DigitChars \cup {"_"}

\* \b before position i: exactly one of the characters at i - 1 and i is \w
Boundary(s, i) ==
    LET WordAt(j) == j \in 1..Len(s) /\ isword(s[j])
    IN  WordAt(i - 1) # WordAt(i)

\* line 955: each run of whitespace of the stripped string becomes one blank
RECURSIVE collapse(_)
collapse(chars) ==
    IF chars = <<>> THEN <<>>
    ELSE IF Head(chars) \in Whitespace
         THEN IF Len(chars) > 1 /\ chars[2] \in Whitespace
              THEN collapse(Tail(chars))
              ELSE <<" ">> \o collapse(Tail(chars))
         ELSE <<Head(chars)>> \o collapse(Tail(chars))

\* line 958: the four characters that are removed
remove_special(chars) ==
    SelectSeq(chars, LAMBDA c : c \notin {"acute", "~", "diaeresis", ","})

\* the number of digits of a match of \b(\d{1,2})(?:st|nd|rd|th)\b at i, or 0
ordinal_at(s, i) ==
    LET Suffix(j) == /\ j + 1 <= Len(s)
                     /\ <<lower(s[j]), lower(s[j + 1])>> \in
                            {<<"s", "t">>, <<"n", "d">>, <<"r", "d">>, <<"t", "h">>}
                     /\ Boundary(s, j + 2)
    IN  IF ~(Boundary(s, i) /\ s[i] \in DigitChars) THEN 0
        ELSE IF i + 1 <= Len(s) /\ s[i + 1] \in DigitChars /\ Suffix(i + 2) THEN 2
        ELSE IF Suffix(i + 1) THEN 1
        ELSE 0

\* line 961: re.sub keeps the digits of each match, scanning from the left
RECURSIVE ordinal_suffix(_, _)
ordinal_suffix(s, i) ==
    IF i > Len(s) THEN <<>>
    ELSE IF ordinal_at(s, i) > 0
         THEN SubSeq(s, i, i + ordinal_at(s, i) - 1)
                  \o ordinal_suffix(s, i + ordinal_at(s, i) + 2)
         ELSE <<s[i]>> \o ordinal_suffix(s, i + 1)

\* re.sub(r'\bword\b', repl, s, flags=re.IGNORECASE), scanning from i
RECURSIVE sub_word(_, _, _, _)
sub_word(s, i, word, repl) ==
    IF i > Len(s) THEN <<>>
    ELSE IF /\ Boundary(s, i)
            /\ i + Len(word) - 1 <= Len(s)
            /\ \A k \in 1..Len(word) : lower(s[i + k - 1]) = lower(word[k])
            /\ Boundary(s, i + Len(word))
         THEN repl \o sub_word(s, i + Len(word), word, repl)
         ELSE <<s[i]>> \o sub_word(s, i + 1, word, repl)

\* lines 964-973, in the order they are applied
SpellingFixes ==
    <<<<<<"l", "e", "s">>, <<"l", "e", "s", "s">>>>,
      <<<<"r", "o", "m">>, <<"f", "r", "o", "m">>>>,
      <<<<"f", "r", "m">>, <<"f", "r", "o", "m">>>>,
      <<<<"J", "a", "n", "u", "a", "r", "y", "u">>, <<"J", "a", "n", "u", "a", "r", "y">>>>,
      <<<<"J", "n", "u", "a", "r", "y">>, <<"J", "a", "n", "u", "a", "r", "y">>>>,
      <<<<"F", "e", "b", "u", "r", "a", "r", "y">>, <<"F", "e", "b", "r", "u", "a", "r", "y">>>>,
      <<<<"F", "e", "b", "u", "a", "r", "y">>, <<"F", "e", "b", "r", "u", "a", "r", "y">>>>,
      <<<<"S", "e", "p", "t", "m", "b", "e", "r">>, <<"S", "e", "p", "t", "e", "m", "b", "e", "r">>>>,
      <<<<"N", "o", "v", "m", "b", "e", "r">>, <<"N", "o", "v", "e", "m", "b", "e", "r">>>>,
      <<<<"D", "e", "c", "m", "b", "e", "r">>, <<"D", "e", "c", "e", "m", "b", "e", "r">>>>>>

RECURSIVE fix_spelling(_, _)
fix_spelling(s, k) ==
    IF k > Len(SpellingFixes) THEN s
    ELSE fix_spelling(sub_word(s, 1, SpellingFixes[k][1], SpellingFixes[k][2]), k + 1)

\* normalise_term_str, lines 949-974
normalise_term_str(term_str) ==
    fix_spelling(ordinal_suffix(remove_special(collapse(strip(term_str))), 1), 1)

TermAlphabet == {" ", ",", "1", "t", "h"}

SampleTerms ==
    {<<"l", "e", "s", " ", "1", " ", "d", "a", "y">>,
     <<"1", " ", "y", "e", "a", "r", " ", "R", "o", "m", " ", "2", "N", "D", " ", "M", "a", "y">>,
     <<"f", "r", "m", " ", "1">>,
     <<"J", "a", "n", "u", "a", "r", "y", "u">>,
     <<"j", "n", "u", "a", "r", "y">>,
     <<"F", "e", "b", "u", "r", "a", "r", "y">>,
     <<"F", "e", "b", "u", "a", "r", "y">>,
     <<"S", "e", "p", "t", "m", "b", "e", "r">>,
     <<"N", "o", "v", "m", "b", "e", "r">>,
     <<"D", "E", "C", "M", "B", "E", "R">>,
     <<"1", " ", ",", " ", "1">>,
     <<"~", " ", "9", "9">>,
     <<"1", "2", "t", "h">>,
     <<"1", "s", ",", "t">>,
     <<"nbsp", "1", "\t", "nbsp", "1", "\t">>}

\* every string of up to MaxTermLen characters of the alphabet, and the samples
TermStrings ==
    UNION {[1..n -> TermAlphabet] : n \in 0..MaxTermLen} \cup SampleTerms

VARIABLES t_str, t_prev, t_n

tvars == <<t_str, t_prev, t_n>>

TInit ==
    /\ t_n = 0
    /\ t_str \in TermStrings
    /\ t_prev = t_str

\* the string is normalised once more
Normalise ==
    /\ t_n < MaxNormalisations
    /\ t_str' = normalise_term_str(t_str)
    /\ t_prev' = t_str
    /\ t_n' = t_n + 1

\* the normaliser's variables while another part is checked
TIdle ==
    /\ t_n = 0
    /\ t_str = <<>>
    /\ t_prev = <<>>

\* C19: term normalisation is idempotent: normalising a normalised string
\* gives the same string again.
C19_AsStated ==
    t_n >= 2 => t_str = t_prev

(***************************************************************************)
(* enricher/update_mongo_from_csv.py: geocoding the postcodes of           *)
(* not_found.csv with the postcode service and the PostcodeCache.  A       *)
(* postcode is a sequence of characters; the cache is a function from the  *)
(* normalised postcodes it holds to the data or None.                      *)
(***************************************************************************)
\* postcodes per request (100 in the source, line 263)
POSTCODES_IO_BATCH_SIZE == 2

\* the cache is saved when processed_rows is a multiple of this (100000 in
\* the source, line 669)
SAVE_EVERY_ROWS == 4

MaxGeoChunks == 2
MaxGeoRuns == 2

\* the postcode values of the pc column
RawPostcodes == {<<"a", "1">>, <<"A", " ", "1">>, <<"A", "1">>, <<"h", "2">>}

\* what the service holds for the one postcode it knows
Geo == [latitude |-> "51.5", longitude |-> "-0.1"]

\* PostcodeCache._normalize_postcode, lines 327-332
normalize_postcode(postcode) ==
    SelectSeq([i \in 1..Len(strip(postcode)) |-> UpperChar(strip(postcode)[i])],
              LAMBDA c : c # " ")

\* str(pc).strip().upper(), line 423
pc_str(pc) == [i \in 1..Len(strip(pc)) |-> UpperChar(strip(pc)[i])]

\* the result the service gives for a query: the postcode A1 exists
Service(query_postcode) ==
    IF normalize_postcode(query_postcode) = <<"A", "1">> THEN Geo ELSE NoneVal

EmptyCache == [k \in {} |-> NoneVal]

\* PostcodeCache.set, lines 317-320
cache_set(cache, postcode, data) ==
    [k \in DOMAIN cache \cup {normalize_postcode(postcode)} |->
        IF k = normalize_postcode(postcode) THEN data ELSE cache[k]]

RECURSIVE cache_set_all(_, _, _)
cache_set_all(cache, postcodes, api_results) ==
    IF postcodes = <<>> THEN cache
    ELSE cache_set_all(cache_set(cache, Head(postcodes), api_results[Head(postcodes)]),
                       Tail(postcodes), api_results)

\* bulk_lookup_postcodes, lines 349-397: the request succeeds, or raises a
\* RequestException (a timeout is one)
bulk_lookup_postcodes(postcodes, outcome) ==
    IF outcome = "error" THEN [pc \in Range(postcodes) |-> NoneVal]
    ELSE [pc \in Range(postcodes) |-> Service(pc)]

\* the keys of a dict in insertion order
RECURSIVE Keys(_)
Keys(postcodes) ==
    IF postcodes = <<>> THEN <<>>
    ELSE LET rest == Keys(SubSeq(postcodes, 1, Len(postcodes) - 1))
         IN  IF Last(postcodes) \in Range(rest) THEN rest
             ELSE Append(rest, Last(postcodes))

\* the loop of lines 434-446 from the uncached postcodes on: g holds the
\* cache, the results and the requests sent so far
RECURSIVE fetch_uncached(_, _, _)
fetch_uncached(uncached_postcodes, outcomes, g) ==
    IF uncached_postcodes = <<>> THEN g
    ELSE LET n == Min(POSTCODES_IO_BATCH_SIZE, Len(uncached_postcodes))
             batch == SubSeq(uncached_postcodes, 1, n)
             api_results == bulk_lookup_postcodes(batch, Head(outcomes))
             set == SelectSeq(Keys(batch), LAMBDA pc : pc \in DOMAIN api_results)
         IN  fetch_uncached(
                 SubSeq(uncached_postcodes, n + 1, Len(uncached_postcodes)),
                 Tail(outcomes),
                 [cache |-> cache_set_all(g.cache, set, api_results),
                  results |-> [pc \in DOMAIN g.results \cup Range(set) |->
                                  IF pc \in Range(set) THEN api_results[pc]
                                  ELSE g.results[pc]],
                  sent |-> Append(g.sent, [postcodes |-> batch,
                                           outcome |-> Head(outcomes)])])

\* geocode_postcodes_batch, lines 400-448
geocode_postcodes_batch(postcodes, cache, outcomes) ==
    LET strs == [i \in 1..Len(postcodes) |-> pc_str(postcodes[i])]
        named == SelectSeq(strs, LAMBDA pc : pc # <<>>)
        cached == {pc \in Range(named) : normalize_postcode(pc) \in DOMAIN cache}
        uncached_postcodes == SelectSeq(named, LAMBDA pc : pc \notin cached)
    IN  fetch_uncached(uncached_postcodes, outcomes,
                       [cache |-> cache,
                        results |-> [pc \in cached |-> cache[normalize_postcode(pc)]],
                        sent |-> <<>>])

\* process_not_found_chunk, lines 450-556: the counts it returns
process_not_found_chunk(chunk, geocode_results) ==
    LET updated == {i \in 1..Len(chunk) :
                       /\ pc_str(chunk[i]) \in DOMAIN geocode_results
                       /\ geocode_results[pc_str(chunk[i])] # NoneVal}
    IN  [updates |-> Cardinality(updated),
         skipped |-> Len(chunk) - Cardinality(updated)]

\* the outcomes of the requests of one chunk
Outcomes == [1..Cardinality(RawPostcodes) -> {"ok", "error"}]

VARIABLES
    g_pc,          \* "idle" | "run"
    g_cache,       \* PostcodeCache._cache
    g_file,        \* postcode_cache.json: the cache it holds
    g_rows,        \* processed_rows
    g_chunks,      \* chunks read by the run
    g_runs,        \* runs started so far
    g_sent,        \* the requests of the run, in order
    g_chunk,       \* the postcodes of the last chunk
    g_chunk_sent,  \* the requests of the last chunk
    g_results,     \* geocode_results of the last chunk
    g_counts       \* what process_not_found_chunk returned for it

gvars == <<g_pc, g_cache, g_file, g_rows, g_chunks, g_runs, g_sent, g_chunk,
           g_chunk_sent, g_results, g_counts>>

GInit ==
    /\ g_pc = "idle"
    /\ g_cache = EmptyCache
    /\ g_file = EmptyCache
    /\ g_rows = 0
    /\ g_chunks = 0
    /\ g_runs = 0
    /\ g_sent = <<>>
    /\ g_chunk = <<>>
    /\ g_chunk_sent = <<>>
    /\ g_results = EmptyCache
    /\ g_counts = [updates |-> 0, skipped |-> 0]

\* update_mongo_from_not_found_csv, lines 596-623: the cache is loaded from
\* its file
GStart ==
    /\ g_pc = "idle"
    /\ g_runs < MaxGeoRuns
    /\ g_runs' = g_runs + 1
    /\ g_pc' = "run"
    /\ g_cache' = g_file
    /\ g_rows' = 0
    /\ g_chunks' = 0
    /\ g_sent' = <<>>
    /\ g_chunk' = <<>>
    /\ g_chunk_sent' = <<>>
    /\ g_results' = EmptyCache
    /\ g_counts' = [updates |-> 0, skipped |-> 0]
    /\ UNCHANGED g_file

\* one pass of the loop of lines 638-670: a chunk of rows with distinct
\* postcode values is geocoded and processed, and the cache is saved when
\* processed_rows is a multiple of SAVE_EVERY_ROWS
GChunk ==
    /\ g_pc = "run"
    /\ g_chunks < MaxGeoChunks
    /\ g_chunks' = g_chunks + 1
    /\ \E S \in SUBSET RawPostcodes \ {{}} : \E chunk \in Orders(S) :
       \E outcomes \in Outcomes :
       \E g \in {geocode_postcodes_batch(chunk, g_cache, outcomes)} :
          /\ g_cache' = g.cache
          /\ g_results' = g.results
          /\ g_chunk_sent' = g.sent
          /\ g_sent' = g_sent \o g.sent
          /\ g_chunk' = chunk
          /\ g_counts' = process_not_found_chunk(chunk, g.results)
          /\ g_rows' = g_rows + Len(chunk)
          /\ g_file' = IF (g_rows + Len(chunk)) % SAVE_EVERY_ROWS = 0
                       THEN g.cache ELSE g_file
    /\ UNCHANGED <<g_pc, g_runs>>

\* lines 672-680: the loop has ended, or an exception or an interrupt has
\* left it; the finally block saves the cache
GFinish ==
    /\ g_pc = "run"
    /\ g_pc' = "idle"
    /\ g_file' = g_cache
    /\ UNCHANGED <<g_cache, g_rows, g_chunks, g_runs, g_sent, g_chunk,
                   g_chunk_sent, g_results, g_counts>>

\* the geocoder's variables while another part is checked
GIdle == GInit

\* the requests of a sequence of requests that raised
Failed(sent) == {i \in 1..Len(sent) : sent[i].outcome = "error"}

\* C22 as the specification states it: when a run has ended, no postcode of
\* a request of the run that failed is held by the cache file.
C22_AsStated ==
    (g_pc = "idle" /\ g_runs > 0) =>
        \A i \in Failed(g_sent) : \A pc \in Range(g_sent[i].postcodes) :
            normalize_postcode(pc) \notin DOMAIN g_file

\* C24 as the specification states it: every postcode of a failed request
\* of the chunk has the result None unless a later request of the chunk
\* gave it one, every row of the chunk is counted as updated or skipped,
\* and no postcode of a failed request is sent again in the run.
C24_AsStated ==
    /\ \A i \in Failed(g_chunk_sent) :
          \A pc \in Range(g_chunk_sent[i].postcodes) :
              \/ g_results[pc] = NoneVal
              \/ \E j \in (i + 1)..Len(g_chunk_sent) :
                    pc \in Range(g_chunk_sent[j].postcodes)
    /\ g_counts.updates + g_counts.skipped = Len(g_chunk)
    /\ \A i \in Failed(g_sent) : \A j \in (i + 1)..Len(g_sent) :
          Range(g_sent[i].postcodes) \cap Range(g_sent[j].postcodes) = {}

\* the extraction drivers' variables while another part is checked
EIdle ==
    /\ EInit
    /\ e_docs = [id \in LeaseDocIds |-> Document(Absent, DolOf(id))]

\* the matching driver's variables while another part is checked
MIdle ==
    /\ MInit
    /\ m_uid = [d \in DocIds |-> 1]
    /\ m_hits = {}

vars == <<vvars, mvars, evars, lvars, dvars, uvars, tvars, nvars, gvars>>

InitValidate == VInit /\ MIdle /\ EIdle /\ LIdle /\ DIdle /\ UIdle /\ TIdle /\ NIdle /\ GIdle

NextValidate ==
    \/ VParse /\ UNCHANGED <<mvars, evars, lvars, dvars, uvars, tvars, nvars, gvars>>
    \/ VValidate /\ UNCHANGED <<mvars, evars, lvars, dvars, uvars, tvars, nvars, gvars>>

SpecValidate == InitValidate /\ [][NextValidate]_vars

InitMatch == MInit /\ VIdle /\ EIdle /\ LIdle /\ DIdle /\ UIdle /\ TIdle /\ NIdle /\ GIdle

NextMatch ==
    \/ Start /\ UNCHANGED <<vvars, evars, lvars, dvars, uvars, tvars, nvars, gvars>>
    \/ FetchBatch /\ UNCHANGED <<vvars, evars, lvars, dvars, uvars, tvars, nvars, gvars>>
    \/ Finish /\ UNCHANGED <<vvars, evars, lvars, dvars, uvars, tvars, nvars, gvars>>
    \/ ProcessBatch /\ UNCHANGED <<vvars, evars, lvars, dvars, uvars, tvars, nvars, gvars>>
    \/ SaveProgress /\ UNCHANGED <<vvars, evars, lvars, dvars, uvars, tvars, nvars, gvars>>
    \/ FlushCommit /\ UNCHANGED <<vvars, evars, lvars, dvars, uvars, tvars, nvars, gvars>>
    \/ BatchError /\ UNCHANGED <<vvars, evars, lvars, dvars, uvars, tvars, nvars, gvars>>
    \/ Interrupt /\ UNCHANGED <<vvars, evars, lvars, dvars, uvars, tvars, nvars, gvars>>
    \/ Kill /\ UNCHANGED <<vvars, evars, lvars, dvars, uvars, tvars, nvars, gvars>>
    \/ DeleteByUid /\ UNCHANGED <<vvars, evars, lvars, dvars, uvars, tvars, nvars, gvars>>

SpecMatch == InitMatch /\ [][NextMatch]_vars

InitExtract == EInit /\ VIdle /\ MIdle /\ LIdle /\ DIdle /\ UIdle /\ TIdle /\ NIdle /\ GIdle

NextExtract ==
    \/ StartRegex /\ UNCHANGED <<vvars, mvars, lvars, dvars, uvars, tvars, nvars, gvars>>
    \/ RegexRecord /\ UNCHANGED <<vvars, mvars, lvars, dvars, uvars, tvars, nvars, gvars>>
    \/ RegexFinish /\ UNCHANGED <<vvars, mvars, lvars, dvars, uvars, tvars, nvars, gvars>>
    \/ StartT5 /\ UNCHANGED <<vvars, mvars, lvars, dvars, uvars, tvars, nvars, gvars>>
    \/ T5Record /\ UNCHANGED <<vvars, mvars, lvars, dvars, uvars, tvars, nvars, gvars>>
    \/ T5Finish /\ UNCHANGED <<vvars, mvars, lvars, dvars, uvars, tvars, nvars, gvars>>
    \/ ExtractInterrupt /\ UNCHANGED <<vvars, mvars, lvars, dvars, uvars, tvars, nvars, gvars>>
    \/ FinalWriteRaises /\ UNCHANGED <<vvars, mvars, lvars, dvars, uvars, tvars, nvars, gvars>>

SpecExtract == InitExtract /\ [][NextExtract]_vars

InitExtractMarked == VIdle /\ MIdle /\ LIdle /\ DIdle /\ UIdle /\ TIdle /\ EMarkedInit /\ NIdle /\ GIdle

SpecExtractMarked == InitExtractMarked /\ [][NextExtract]_vars

InitLookup == VIdle /\ MIdle /\ EIdle /\ LInit /\ DIdle /\ UIdle /\ TIdle /\ NIdle /\ GIdle

NextLookup ==
    \/ LInsert /\ UNCHANGED <<vvars, mvars, evars, dvars, uvars, tvars, nvars, gvars>>
    \/ LStart /\ UNCHANGED <<vvars, mvars, evars, dvars, uvars, tvars, nvars, gvars>>
    \/ LProcessBatch /\ UNCHANGED <<vvars, mvars, evars, dvars, uvars, tvars, nvars, gvars>>
    \/ LPostProcess /\ UNCHANGED <<vvars, mvars, evars, dvars, uvars, tvars, nvars, gvars>>

SpecLookup == InitLookup /\ [][NextLookup]_vars

InitDenormalize == VIdle /\ MIdle /\ EIdle /\ LIdle /\ DInit /\ UIdle /\ TIdle /\ NIdle /\ GIdle

NextDenormalize ==
    \/ ExpandRanges /\ UNCHANGED <<vvars, mvars, evars, lvars, uvars, tvars, nvars, gvars>>
    \/ ExpandSt /\ UNCHANGED <<vvars, mvars, evars, lvars, uvars, tvars, nvars, gvars>>

SpecDenormalize == InitDenormalize /\ [][NextDenormalize]_vars

InitEnrich == VIdle /\ MIdle /\ EIdle /\ LIdle /\ DIdle /\ UInit /\ TIdle /\ NIdle /\ GIdle

NextEnrich ==
    \/ EnrichChunk /\ UNCHANGED <<vvars, mvars, evars, lvars, dvars, tvars, nvars, gvars>>

SpecEnrich == InitEnrich /\ [][NextEnrich]_vars

InitValidateAny == VAnyInit /\ MIdle /\ EIdle /\ LIdle /\ DIdle /\ UIdle /\ TIdle /\ NIdle /\ GIdle

NextValidateAny ==
    \/ VValidate /\ UNCHANGED <<mvars, evars, lvars, dvars, uvars, tvars, nvars, gvars>>

SpecValidateAny == InitValidateAny /\ [][NextValidateAny]_vars

InitNormalise == VIdle /\ MIdle /\ EIdle /\ LIdle /\ DIdle /\ UIdle /\ TInit /\ NIdle /\ GIdle

NextNormalise ==
    \/ Normalise /\ UNCHANGED <<vvars, mvars, evars, lvars, dvars, uvars, nvars, gvars>>

SpecNormalise == InitNormalise /\ [][NextNormalise]_vars

InitNeural == VIdle /\ MIdle /\ EIdle /\ LIdle /\ DIdle /\ UIdle /\ TIdle /\ NInit /\ GIdle

NextNeural ==
    \/ ParseAndValidate /\ UNCHANGED <<vvars, mvars, evars, lvars, dvars, uvars, tvars, gvars>>

SpecNeural == InitNeural /\ [][NextNeural]_vars

InitGeocode == VIdle /\ MIdle /\ EIdle /\ LIdle /\ DIdle /\ UIdle /\ TIdle /\ NIdle /\ GInit

NextGeocode ==
    \/ GStart /\ UNCHANGED <<vvars, mvars, evars, lvars, dvars, uvars, tvars, nvars>>
    \/ GChunk /\ UNCHANGED <<vvars, mvars, evars, lvars, dvars, uvars, tvars, nvars>>
    \/ GFinish /\ UNCHANGED <<vvars, mvars, evars, lvars, dvars, uvars, tvars, nvars>>

SpecGeocode == InitGeocode /\ [][NextGeocode]_vars

====
